---- MODULE Spec2Model ----
(***************************************************************************)
(* The gmon profiling pipeline of lib/libc/gmon/gmon.c (capture side:      *)
(* monstartup, moncontrol, _mcleanup) and usr.bin/gprof/extract.c          *)
(* (reconstruction side: ktrace_extract, gmon_append).                     *)
(*                                                                         *)
(* Text records are sequences of one-character strings, so that the        *)
(* formatting done by snprintf(3) and the parsing done by sscanf(3),       *)
(* strsep(3) and the hand-written hexadecimal loop are computed character  *)
(* by character.                                                           *)
(***************************************************************************)
EXTENDS Integers, Sequences, FiniteSets, TLC

(***************************************************************************)
(* Bounds of the model.                                                    *)
(***************************************************************************)
\* largest program counter handed to monstartup
MaxPc == 20
\* number of call edges the Arc Recorder is given
MaxCalls == 3
\* number of histogram cells the sampling source touches
MaxHits == 1
\* records ktrace_extract is fed from an arbitrary trace
MaxFeed == 4

(***************************************************************************)
(* Program constants.  Those of <sys/gmon.h> and <sys/ktrace.h> are used   *)
(* by the sources but defined outside them.                                *)
(***************************************************************************)
HISTFRACTION == 2
HASHFRACTION == 2
ARCDENSITY == 2
\* <sys/gmon.h> has 50; scaled so that the arc pool can be exhausted
MINARCS == 3
MAXARCS == 65534
GMONVERSION == 333945
SCALE_1_TO_1 == 65536
\* sizeof(HISTCOUNTER), asserted by _mcleanup: assert(sizeof(*p->kcount) == 2)
SizeofHistcounter == 2
\* sizeof(*p->froms): froms is an array of u_short
SizeofFroms == 2
\* sizeof(struct gmonhdr): two u_long, three int, int spare[3]
SizeofGmonhdr == 40
\* sizeof(struct tostruct)
SizeofTostruct == 24
\* <sys/ktrace.h> has 2048.  Scaled to the smallest value with the same
\* remainder modulo 5 (all the packing arithmetic depends on) that still
\* holds the header record of the sessions enumerated here.
KTR_USER_MAXLEN == 28
\* the channel lengths the packing loop is examined under (SpecM)
MinMaxLen == 27
MaxMaxLen == 30

(***************************************************************************)
(* Characters.                                                             *)
(***************************************************************************)
\* ASCII 32 .. 126 (the double quote and the back quote, never part of
\* a record here, are spelled out); Ord(c) is the character's code
AsciiTable ==
  << " ", "!", "dquote", "#", "$", "%", "&", "'", "(", ")", "*", "+", ",", "-", ".", "/",
     "0", "1", "2", "3", "4", "5", "6", "7", "8", "9", ":", ";", "<", "=", ">", "?",
     "@", "A", "B", "C", "D", "E", "F", "G", "H", "I", "J", "K", "L", "M", "N", "O",
     "P", "Q", "R", "S", "T", "U", "V", "W", "X", "Y", "Z", "[", "\\", "]", "^", "_",
     "bquote", "a", "b", "c", "d", "e", "f", "g", "h", "i", "j", "k", "l", "m", "n", "o",
     "p", "q", "r", "s", "t", "u", "v", "w", "x", "y", "z", "{", "|", "}", "~" >>

OrdTable ==
  [c \in { AsciiTable[i] : i \in 1..Len(AsciiTable) } |->
     31 + (CHOOSE i \in 1..Len(AsciiTable) : AsciiTable[i] = c)]

Ord(c) == OrdTable[c]

HexChars ==
  << "0", "1", "2", "3", "4", "5", "6", "7", "8", "9", "a", "b", "c", "d", "e", "f" >>

\* the literal tags of the wire records
TagGmonhdr == << "g", "m", "o", "n", "h", "d", "r" >>
TagKcount == << "k", "c", "o", "u", "n", "t" >>
TagRawarc == << "r", "a", "w", "a", "r", "c" >>
TagFooter == << "f", "o", "o", "t", "e", "r" >>

(***************************************************************************)
(* snprintf(3) conversions used by _mcleanup.                              *)
(***************************************************************************)
RECURSIVE FmtHex(_)
\* "%lx" and "%x": lower-case hexadecimal, no leading zeros
FmtHex(n) ==
  IF n < 16 THEN << HexChars[n + 1] >>
  ELSE FmtHex(n \div 16) \o << HexChars[(n % 16) + 1] >>

\* "%04hx" applied to an unsigned short: exactly four digits
FmtHex4(n) ==
  LET v == n % 65536 IN
  << HexChars[(v \div 4096) + 1], HexChars[((v \div 256) % 16) + 1],
     HexChars[((v \div 16) % 16) + 1], HexChars[(v % 16) + 1] >>

\* "gmonhdr %lx %lx %x %x %x"
FmtGmonhdr(h) ==
  TagGmonhdr \o << " " >> \o FmtHex(h.lpc) \o << " " >> \o FmtHex(h.hpc)
    \o << " " >> \o FmtHex(h.ncnt) \o << " " >> \o FmtHex(h.version)
    \o << " " >> \o FmtHex(h.profrate)

\* "rawarc %lx %lx %lx"
FmtRawarc(a) ==
  TagRawarc \o << " " >> \o FmtHex(a.raw_frompc) \o << " " >> \o FmtHex(a.raw_selfpc)
    \o << " " >> \o FmtHex(a.raw_count)

(***************************************************************************)
(* State.                                                                  *)
(***************************************************************************)
VARIABLES
  gmonparam,  \* struct gmonparam _gmonparam
  s_scale,    \* static int s_scale
  profil,     \* what the sampling source was last handed by profil(2)
  pc,         \* where the instrumented process is
  maxlen,     \* KTR_USER_MAXLEN of the build: ubuf holds maxlen + 1 bytes
  mc,         \* locals of _mcleanup: i, fromindex, toindex
  chan,       \* the trace channel: the records utrace(2) accepted, in order
  sent,       \* the values each record of chan was formatted from
  lost,       \* the number of the record whose utrace(2) failed (0: none)
  diag,       \* what was written to stderr
  de,         \* struct gmon_de of ktrace_extract
  out,        \* the temporary file gmon_append writes
  consumed,   \* the records handed to gmon_append so far, each with the
              \* cursor it met and the state it left
  werr,       \* whether an fwrite(3) to the temporary file has failed
  xret,       \* what ktrace_extract returned, and the warning it gave
  kt,         \* target_pid, have_pid and pid of ktrace_extract, and the number
              \* of records ktrace_next has returned
  tp,         \* table-proc: struct table_proc_priv of the table, the services
              \* registered, and what the last call made of its reply
  el,         \* mg: the lines of the buffer, the dot, and the last command
  mapped,     \* the regions mmap(2) has returned and munmap(2) has not released
  hist        \* history of the session: the arguments monstartup was given,
              \* whether the arc pool was ever found exhausted, the modes of
              \* the moncontrol calls made in a row last, and the calls
              \* reported to the Arc Recorder

vars ==
  << gmonparam, s_scale, profil, pc, maxlen, mc, chan, sent, lost, diag,
     de, out, consumed, werr, xret, kt, tp, el, mapped, hist >>

captureVars ==
  << gmonparam, s_scale, profil, pc, maxlen, mc, chan, sent, lost, diag,
     mapped, hist >>
extractVars == << de, out, consumed, werr, xret, kt >>
otherVars == << tp, el >>

\* a null region pointer
NULL == << >>

ProfilOff == [size |-> 0, offset |-> 0, scale |-> 0]

(***************************************************************************)
(* monstartup and moncontrol.                                              *)
(***************************************************************************)
ROUNDDOWN(x, y) == (x \div y) * y
\* a ROUNDUP that would round down
RoundupShort(x, y) == (x \div y) * y
ROUNDUP(x, y) == ((x + y - 1) \div y) * y

\* p->tolimit: textsize * ARCDENSITY / 100 clamped to [MINARCS, MAXARCS]
Tolimit(textsize) ==
  LET t == (textsize * ARCDENSITY) \div 100 IN
  IF t < MINARCS THEN MINARCS ELSE IF t > MAXARCS THEN MAXARCS ELSE t

\* the sizes monstartup derives from its arguments, before any allocation
Sizes(p, lowpc, highpc) ==
  LET lo == ROUNDDOWN(lowpc, HISTFRACTION * SizeofHistcounter)
      hi == ROUNDUP(highpc, HISTFRACTION * SizeofHistcounter)
      ts == hi - lo
  IN [p EXCEPT !.lowpc = lo, !.highpc = hi, !.textsize = ts,
               !.kcountsize = ts \div HISTFRACTION,
               !.hashfraction = HASHFRACTION,
               !.fromssize = ts \div HASHFRACTION,
               !.tolimit = Tolimit(ts),
               !.tossize = Tolimit(ts) * SizeofTostruct]

\* s_scale as monstartup computes it (the floating point branch is the one
\* compiled: notdef is not defined)
Scale(p) ==
  LET o == p.highpc - p.lowpc IN
  IF p.kcountsize < o THEN (p.kcountsize * SCALE_1_TO_1) \div o ELSE SCALE_1_TO_1

\* lines 109-118, the branch that avoids floating point (compiled when
\* notdef is defined): the divisors it uses for o = highpc - lowpc
ScaleDivisors(o, kcountsize) ==
  IF kcountsize = 0 THEN { 0 }
  ELSE LET quot == o \div kcountsize IN
       IF quot >= 65536 THEN { kcountsize }
       ELSE IF quot >= 256 THEN { kcountsize, quot }
       ELSE IF o >= 8388608
       THEN IF kcountsize \div 256 = 0 THEN { kcountsize, 0 }
            ELSE { kcountsize, o \div (kcountsize \div 256) }
       ELSE { kcountsize, (o * 256) \div kcountsize }

\* mmap(2) of a zero-filled region of size bytes, each cell cw bytes wide; the
\* model keeps one element per cell
ZeroCells(n) == [k \in 0..(n - 1) |-> 0]
ZeroTos(n) == [k \in 0..(n - 1) |-> [selfpc |-> 0, count |-> 0, link |-> 0]]

\* a moncontrol that would leave the state GMON_PROF_ON whatever the mode
MoncontrolStateOn(mode) == "GMON_PROF_ON"

\* moncontrol(mode): the state it leaves
MoncontrolState(mode) == IF mode # 0 THEN "GMON_PROF_ON" ELSE "GMON_PROF_OFF"

\* a moncontrol that would switch the state over at each call
MoncontrolToggle(p, mode) ==
  [p EXCEPT !.state = IF @ = "GMON_PROF_ON" THEN "GMON_PROF_OFF" ELSE "GMON_PROF_ON"]

\* moncontrol(mode): the session it leaves
Moncontrol(p, mode) == [p EXCEPT !.state = MoncontrolState(mode)]

\* moncontrol(mode): what it hands the sampling source
MoncontrolProfil(p, scale, mode) ==
  IF mode # 0 THEN [size |-> p.kcountsize, offset |-> p.lowpc, scale |-> scale]
  ELSE ProfilOff

\* the three regions
Regions == { "kcount", "froms", "tos" }

\* a mapfailed that would clear the pointer of kcount without releasing it
MapfailedLeak(p, live) ==
  [p |-> [p EXCEPT !.kcount = NULL, !.froms = NULL, !.tos = NULL],
   live |-> live \ { r \in { "froms", "tos" } : p[r] # NULL }]

\* mapfailed: each region whose pointer is set is released and its pointer
\* cleared; live is the set of regions mapped
Mapfailed(p, live) ==
  [p |-> [p EXCEPT !.kcount = NULL, !.froms = NULL, !.tos = NULL],
   live |-> live \ { r \in Regions : p[r] # NULL }]

\* monstartup(lowpc, highpc); failing is the number of the mmap(2) call that
\* fails (0: none).  A request for zero bytes fails as well.
monstartup(lowpc, highpc, failing) ==
  /\ pc = "start"
  /\ LET p0 == Sizes(gmonparam, lowpc, highpc)
         ok1 == failing # 1 /\ p0.kcountsize > 0
         ok2 == ok1 /\ failing # 2 /\ p0.fromssize > 0
         ok3 == ok2 /\ failing # 3 /\ p0.tossize > 0
         p1 == [p0 EXCEPT !.kcount = [k \in 1..(p0.kcountsize \div SizeofHistcounter) |-> 0],
                          \* the From-table as the Arc Recorder indexes it:
                          \* one slot per hashfraction bytes of text; _mcleanup
                          \* reads the first fromssize / sizeof(*froms) of them
                          !.froms = ZeroCells(p0.fromssize),
                          !.tos = ZeroTos(p0.tolimit)]
         \* the regions obtained before the mmap(2) that fails, and the
         \* session with their pointers set
         got == IF ~ok1 THEN { } ELSE IF ~ok2 THEN { "kcount" } ELSE { "kcount", "froms" }
         pf == [p0 EXCEPT !.kcount = IF "kcount" \in got THEN p1.kcount ELSE @,
                          !.froms = IF "froms" \in got THEN p1.froms ELSE @]
     IN IF ok3
        THEN /\ gmonparam' = Moncontrol(p1, 1)
             /\ s_scale' = Scale(p1)
             /\ profil' = MoncontrolProfil(p1, Scale(p1), 1)
             /\ pc' = "run"
             /\ diag' = diag
             /\ mapped' = mapped \cup Regions
        ELSE \* mapfailed: every region obtained is released
             /\ \E r \in { Mapfailed(pf, mapped \cup got) } :
                  /\ gmonparam' = r.p
                  /\ mapped' = r.live
             /\ diag' = Append(diag, "monstartup: out of memory")
             /\ pc' = "nomem"
             /\ UNCHANGED << s_scale, profil >>
  /\ hist' = [hist EXCEPT !.args = << lowpc, highpc >>]
  /\ UNCHANGED << maxlen, mc, chan, sent, lost >>
  /\ UNCHANGED extractVars
  /\ UNCHANGED otherVars

\* the modes of the last two moncontrol calls made in a row
LastModes(last, mode) ==
  IF Len(last) < 2 THEN Append(last, mode) ELSE << last[2], mode >>

\* moncontrol(mode) called by the instrumented program
moncontrol(mode) ==
  /\ pc = "run"
  /\ gmonparam' = Moncontrol(gmonparam, mode)
  /\ profil' = MoncontrolProfil(gmonparam, s_scale, mode)
  /\ hist' = [hist EXCEPT !.last = LastModes(@, mode)]
  /\ UNCHANGED << s_scale, pc, maxlen, mc, chan, sent, lost, diag, mapped >>
  /\ UNCHANGED extractVars
  /\ UNCHANGED otherVars

(***************************************************************************)
(* The Arc Recorder (spec 4.3) and the sampling source (spec 6).           *)
(***************************************************************************)
\* a walk of the chain that would never find the callee
FindArcNone(tos, toindex, selfpc) == 0

RECURSIVE FindArc(_, _, _)
\* the arc of the chain starting at toindex whose callee is selfpc, or 0
FindArc(tos, toindex, selfpc) ==
  IF toindex = 0 THEN 0
  ELSE IF tos[toindex].selfpc = selfpc THEN toindex
  ELSE FindArc(tos, tos[toindex].link, selfpc)

\* the bucket of a caller address
Bucket(p, frompc) == (frompc - p.lowpc) \div p.hashfraction

\* record(caller_pc, callee_pc): the session it leaves
RecordArc(p, frompc, selfpc) ==
  IF frompc < p.lowpc \/ frompc >= p.highpc THEN p
  ELSE
    LET b == Bucket(p, frompc)
        found == FindArc(p.tos, p.froms[b], selfpc)
        fresh == p.tos[0].link + 1
    IN IF found # 0
       THEN [p EXCEPT !.tos[found].count = @ + 1]
       ELSE IF fresh >= p.tolimit
       THEN [p EXCEPT !.state = "GMON_PROF_ERROR"]
       ELSE [p EXCEPT !.tos[0].link = fresh,
                      !.tos[fresh] = [selfpc |-> selfpc, count |-> 1, link |-> p.froms[b]],
                      !.froms[b] = fresh]

\* record(caller_pc, callee_pc) finds the arc pool exhausted
PoolExhausted(p, frompc, selfpc) ==
  /\ p.lowpc <= frompc /\ frompc < p.highpc
  /\ FindArc(p.tos, p.froms[Bucket(p, frompc)], selfpc) = 0
  /\ p.tos[0].link + 1 >= p.tolimit

\* the calls reported so far, one triple << caller, callee, times >> per edge,
\* after one more call of the edge
CountCall(calls, frompc, selfpc) ==
  IF \E t \in calls : t[1] = frompc /\ t[2] = selfpc
  THEN { IF t[1] = frompc /\ t[2] = selfpc THEN << t[1], t[2], t[3] + 1 >> ELSE t : t \in calls }
  ELSE calls \cup { << frompc, selfpc, 1 >> }

RECURSIVE CallsReported(_)
\* the number of calls reported so far
CallsReported(calls) ==
  IF calls = { } THEN 0
  ELSE LET t == CHOOSE t \in calls : TRUE IN t[3] + CallsReported(calls \ { t })

RECURSIVE SumCounts(_, _)
\* the calls recorded so far: the sum of the hit counts of arcs 1..n
SumCounts(tos, n) == IF n = 0 THEN 0 ELSE tos[n].count + SumCounts(tos, n - 1)

\* the callers and callees the model observes
CallerPcs(p) == { p.lowpc, p.lowpc + 2, p.highpc }
CalleePcs(p) == { p.lowpc + 1, p.lowpc + 3 }

record(frompc, selfpc) ==
  /\ pc = "run"
  /\ SumCounts(gmonparam.tos, gmonparam.tos[0].link) < MaxCalls
  /\ CallsReported(hist.calls) < MaxCalls
  /\ gmonparam' = RecordArc(gmonparam, frompc, selfpc)
  /\ hist' = [hist EXCEPT
                !.overflowed = @ \/ PoolExhausted(gmonparam, frompc, selfpc),
                !.last = << >>,
                !.calls = IF gmonparam.lowpc <= frompc /\ frompc < gmonparam.highpc
                          THEN CountCall(@, frompc, selfpc) ELSE @]
  /\ UNCHANGED << s_scale, profil, pc, maxlen, mc, chan, sent, lost, diag, mapped >>
  /\ UNCHANGED extractVars
  /\ UNCHANGED otherVars

\* the cells of the histogram that are not zero
Touched(kcount) == { j \in DOMAIN kcount : kcount[j] # 0 }

\* the counter values the sampling source leaves in a cell
SampleValues == { 10 }

\* the sampling source, while started, counts the program counter at_pc into
\* buffer[(at_pc - offset) * scale / 65536]; the count reached is v
ProfilTick(at_pc, v) ==
  /\ pc = "run"
  /\ profil.scale # 0
  /\ Cardinality(Touched(gmonparam.kcount)) < MaxHits
  /\ LET byte == ((at_pc - profil.offset) * profil.scale) \div SCALE_1_TO_1
         j == byte \div SizeofHistcounter
     IN /\ at_pc >= profil.offset
        /\ byte < profil.size
        /\ gmonparam.kcount[j + 1] < v
        /\ gmonparam' = [gmonparam EXCEPT !.kcount[j + 1] = v]
  /\ hist' = [hist EXCEPT !.last = << >>]
  /\ UNCHANGED << s_scale, profil, pc, maxlen, mc, chan, sent, lost, diag, mapped >>
  /\ UNCHANGED extractVars
  /\ UNCHANGED otherVars

(***************************************************************************)
(* _mcleanup, one step per record it hands to utrace(2).                   *)
(***************************************************************************)
\* what sysctl(KERN_CLOCKRATE) may answer
ClockInfos ==
  { [ok |-> FALSE, hz |-> 0, profhz |-> 0],
    [ok |-> TRUE, hz |-> 100, profhz |-> 0],
    [ok |-> TRUE, hz |-> 100, profhz |-> 100] }

\* clockinfo.profhz after the fallbacks
Profhz(clk) == IF ~clk.ok THEN 0 ELSE IF clk.profhz = 0 THEN clk.hz ELSE clk.profhz

\* struct gmonhdr as _mcleanup fills it
Gmonhdr(p, profhz) ==
  [lpc |-> p.lowpc, hpc |-> p.highpc, ncnt |-> p.kcountsize + SizeofGmonhdr,
   version |-> GMONVERSION, profrate |-> profhz]

\* utrace(2): the kernel takes at most KTR_USER_MAXLEN bytes, and may fail
Utrace(len, ok) == ok /\ len <= maxlen

\* sizeof ubuf
SizeofUbuf == maxlen + 1

\* sample_total and sample_limit of _mcleanup
SampleTotal(p) == p.kcountsize \div SizeofHistcounter
SampleLimit(size) == (size - 6) \div 5

\* limit: where the record starting at sample i ends
PackLimit(i, sample_total, sample_limit) ==
  IF sample_total - i < sample_limit THEN sample_total ELSE i + sample_limit

RECURSIVE PackSamples(_, _, _, _, _, _)
\* the inner loop: samples j .. limit-1 appended to ubuf at off; aborted when
\* assert(len == 5) or assert(off < sizeof ubuf) fails
PackSamples(kcount, j, limit, off, buf, size) ==
  IF j >= limit THEN [aborted |-> FALSE, off |-> off, buf |-> buf]
  ELSE
    LET text == << " " >> \o FmtHex4(kcount[j + 1])
        len == Len(text)
        room == size - off
        kept == IF len < room THEN text ELSE SubSeq(text, 1, room - 1)
    IN IF len # 5 \/ ~(off + len < size)
       THEN [aborted |-> TRUE, off |-> off + len, buf |-> buf \o kept]
       ELSE PackSamples(kcount, j + 1, limit, off + len, buf \o kept, size)

\* an endfrom that would count the bytes of the From-table, not its slots
EndfromBytes(p) == p.fromssize

\* endfrom
Endfrom(p) == p.fromssize \div SizeofFroms

RECURSIVE NextSlot(_, _)
\* the first slot at or after fromindex that _mcleanup does not skip
NextSlot(p, fromindex) ==
  IF fromindex >= Endfrom(p) THEN Endfrom(p)
  ELSE IF p.froms[fromindex] = 0 THEN NextSlot(p, fromindex + 1)
  ELSE fromindex

\* loops that would leave a slot after the arc at the head of its chain
NextArcHeadOnly(p, m) ==
  LET f == NextSlot(p, IF m.toindex # 0 THEN m.fromindex + 1 ELSE m.fromindex)
  IN [fromindex |-> f, toindex |-> IF f >= Endfrom(p) THEN 0 ELSE p.froms[f]]

\* the loop indices at the next rawarc record, given those of the last one
\* (toindex 0: none emitted yet); fromindex = endfrom when the loops are over
NextArc(p, m) ==
  IF m.toindex # 0 /\ p.tos[m.toindex].link # 0
  THEN [fromindex |-> m.fromindex, toindex |-> p.tos[m.toindex].link]
  ELSE LET f == NextSlot(p, IF m.toindex # 0 THEN m.fromindex + 1 ELSE m.fromindex)
       IN [fromindex |-> f, toindex |-> IF f >= Endfrom(p) THEN 0 ELSE p.froms[f]]

\* a struct rawarc whose frompc would leave out the width of a slot
RawarcUnscaled(p, fromindex, toindex) ==
  [raw_frompc |-> p.lowpc + fromindex * p.hashfraction,
   raw_selfpc |-> p.tos[toindex].selfpc,
   raw_count |-> p.tos[toindex].count]

\* struct rawarc for the arc toindex of slot fromindex
Rawarc(p, fromindex, toindex) ==
  [raw_frompc |-> p.lowpc + fromindex * p.hashfraction * SizeofFroms,
   raw_selfpc |-> p.tos[toindex].selfpc,
   raw_count |-> p.tos[toindex].count]

\* a _mcleanup that would go on after a failed utrace(2)
AfterUtraceIgnored(error, next) == next

\* "if (utrace(...) == -1) goto out;" and "if (len == -1 || len >= sizeof ubuf)
\* goto out;": where _mcleanup goes on after a record
AfterUtrace(error, next) == IF error THEN "out" ELSE next

\* lines 158-187: the overflow diagnostic, the clock rate, moncontrol(0),
\* the header record
McleanupHeader(clk, ok) ==
  /\ pc = "run"
  /\ \E ubuf \in { FmtGmonhdr(Gmonhdr(gmonparam, Profhz(clk))) } :
     LET hdr == Gmonhdr(gmonparam, Profhz(clk))
         len == Len(ubuf)
         error == len >= SizeofUbuf \/ ~Utrace(len, ok)
     IN /\ diag' = IF gmonparam.state = "GMON_PROF_ERROR"
                   THEN Append(diag, "_mcleanup: tos overflow") ELSE diag
        /\ gmonparam' = Moncontrol(gmonparam, 0)
        /\ profil' = MoncontrolProfil(gmonparam, s_scale, 0)
        /\ pc' = AfterUtrace(error, IF 0 < SampleTotal(gmonparam) THEN "kcount"
                                    ELSE "rawarc")
        /\ lost' = IF len < SizeofUbuf /\ ~Utrace(len, ok) THEN Len(chan) + 1 ELSE lost
        /\ IF error
           THEN UNCHANGED << chan, sent >>
           ELSE /\ chan' = Append(chan, ubuf)
                /\ sent' = Append(sent, [kind |-> "gmonhdr", hdr |-> hdr])
  /\ mc' = [i |-> 0, fromindex |-> 0, toindex |-> 0]
  /\ hist' = [hist EXCEPT !.last = << >>]
  /\ UNCHANGED << s_scale, maxlen, mapped >>
  /\ UNCHANGED extractVars
  /\ UNCHANGED otherVars

\* lines 205-221: one iteration of the outer loop, one kcount record
McleanupKcount(ok) ==
  /\ pc = "kcount"
  /\ \E limit \in { PackLimit(mc.i, SampleTotal(gmonparam), SampleLimit(SizeofUbuf)) } :
     \E r \in { PackSamples(gmonparam.kcount, mc.i, limit, Len(TagKcount), TagKcount,
                            SizeofUbuf) } :
        IF r.aborted
        THEN /\ pc' = "abort"
             /\ UNCHANGED << mc, chan, sent, lost >>
        ELSE /\ pc' = AfterUtrace(~Utrace(r.off, ok),
                                  IF limit < SampleTotal(gmonparam) THEN "kcount"
                                  ELSE "rawarc")
             /\ lost' = IF ~Utrace(r.off, ok) THEN Len(chan) + 1 ELSE lost
             /\ IF ~Utrace(r.off, ok)
                THEN UNCHANGED << mc, chan, sent >>
                ELSE /\ chan' = Append(chan, r.buf)
                     /\ sent' = Append(sent,
                                       [kind |-> "kcount",
                                        samples |-> SubSeq(gmonparam.kcount, mc.i + 1, limit)])
                     /\ mc' = [mc EXCEPT !.i = limit]
  /\ UNCHANGED << gmonparam, s_scale, profil, maxlen, diag, mapped, hist >>
  /\ UNCHANGED extractVars
  /\ UNCHANGED otherVars

\* lines 225-244: one rawarc record
McleanupRawarc(ok) ==
  /\ pc = "rawarc"
  /\ \E n \in { NextArc(gmonparam, mc) } :
     /\ n.fromindex < Endfrom(gmonparam)
     /\ \E ubuf \in { FmtRawarc(Rawarc(gmonparam, n.fromindex, n.toindex)) } :
        LET arc == Rawarc(gmonparam, n.fromindex, n.toindex)
            len == Len(ubuf)
            error == len >= SizeofUbuf \/ ~Utrace(len, ok)
        IN /\ pc' = AfterUtrace(error, "rawarc")
           /\ lost' = IF len < SizeofUbuf /\ ~Utrace(len, ok) THEN Len(chan) + 1 ELSE lost
           /\ IF error
              THEN UNCHANGED << mc, chan, sent >>
              ELSE /\ chan' = Append(chan, ubuf)
                   /\ sent' = Append(sent, [kind |-> "rawarc", arc |-> arc])
                   /\ mc' = [mc EXCEPT !.fromindex = n.fromindex, !.toindex = n.toindex]
  /\ UNCHANGED << gmonparam, s_scale, profil, maxlen, diag, mapped, hist >>
  /\ UNCHANGED extractVars
  /\ UNCHANGED otherVars

\* lines 251-255: the footer, whose utrace(2) result is not looked at
McleanupFooter(ok) ==
  /\ pc = "rawarc"
  /\ NextArc(gmonparam, mc).fromindex >= Endfrom(gmonparam)
  /\ IF Utrace(Len(TagFooter), ok)
     THEN /\ chan' = Append(chan, TagFooter)
          /\ sent' = Append(sent, [kind |-> "footer"])
          /\ lost' = lost
     ELSE /\ lost' = Len(chan) + 1
          /\ UNCHANGED << chan, sent >>
  /\ pc' = "out"
  /\ mc' = [mc EXCEPT !.fromindex = Endfrom(gmonparam), !.toindex = 0]
  /\ UNCHANGED << gmonparam, s_scale, profil, maxlen, diag, mapped, hist >>
  /\ UNCHANGED extractVars
  /\ UNCHANGED otherVars

(***************************************************************************)
(* The library calls gmon_append parses with.                              *)
(***************************************************************************)
\* isxdigit(3) and the digit's value, as the %x conversion of sscanf(3) reads
IsXDigit(c) ==
  LET o == Ord(c) IN
  (48 <= o /\ o <= 57) \/ (65 <= o /\ o <= 70) \/ (97 <= o /\ o <= 102)

XDigitValue(c) ==
  LET o == Ord(c) IN
  IF o <= 57 THEN o - 48 ELSE IF o <= 70 THEN o - 55 ELSE o - 87

RECURSIVE SkipSpace(_, _)
SkipSpace(s, i) == IF i <= Len(s) /\ s[i] = " " THEN SkipSpace(s, i + 1) ELSE i

RECURSIVE ScanDigits(_, _, _)
ScanDigits(s, i, acc) ==
  IF i <= Len(s) /\ IsXDigit(s[i])
  THEN ScanDigits(s, i + 1, acc * 16 + XDigitValue(s[i]))
  ELSE [next |-> i, val |-> acc]

RECURSIVE ScanHex(_, _, _)
\* n conversions " %lx" from position i: white space is skipped, then the
\* longest run of hexadecimal digits is converted; the values converted until
\* the first failure (signs and 0x prefixes are not part of the alphabet)
ScanHex(s, i, n) ==
  IF n = 0 THEN << >>
  ELSE LET j == SkipSpace(s, i)
           r == ScanDigits(s, j, 0)
       IN IF r.next = j THEN << >>
          ELSE << r.val >> \o ScanHex(s, r.next, n - 1)

\* a sscanf(3) that would not match the literal text of its format
SscanfAnyTag(trace, tag, n) == ScanHex(trace, Len(tag) + 1, n)

\* sscanf(trace, "<tag> %lx ... %lx"): the values assigned; their number is
\* the count sscanf returns (what follows the last conversion is not looked at)
Sscanf(trace, tag, n) ==
  IF Len(trace) >= Len(tag) /\ SubSeq(trace, 1, Len(tag)) = tag
  THEN ScanHex(trace, Len(tag) + 1, n)
  ELSE << >>

RECURSIVE Strsep(_)
\* the tokens successive strsep(&trace, " ") calls return: the pieces between
\* single spaces, empty ones included
Strsep(s) ==
  IF \A i \in 1..Len(s) : s[i] # " " THEN << s >>
  ELSE LET i == CHOOSE i \in 1..Len(s) : s[i] = " " /\ \A k \in 1..(i - 1) : s[k] # " "
       IN << SubSeq(s, 1, i - 1) >> \o Strsep(SubSeq(s, i + 1, Len(s)))

(***************************************************************************)
(* gmon_append.                                                            *)
(***************************************************************************)
RECURSIVE DecodeSample(_, _, _)
\* lines 243-253: the digits of one field folded into a uint16_t; bad when a
\* character fails the range test
DecodeSample(p, k, sample) ==
  IF k > Len(p) THEN [bad |-> FALSE, val |-> sample]
  ELSE IF Ord(p[k]) < Ord("0") \/ Ord("f") < Ord(p[k])
  THEN [bad |-> TRUE, val |-> sample]
  ELSE DecodeSample(p, k + 1, (sample * 16 + (Ord(p[k]) - Ord("0"))) % 65536)

\* an error exit that would put the cursor back at HEADER
AppendErrorRestart(d, o, w, msg) ==
  [de |-> [d EXCEPT !.state = "HEADER"], out |-> o, werr |-> w, warn |-> msg,
   aborted |-> FALSE]

\* goto error
AppendError(d, o, w, msg) ==
  [de |-> [d EXCEPT !.state = "ERROR"], out |-> o, werr |-> w, warn |-> msg,
   aborted |-> FALSE]

AppendOk(d, o) == [de |-> d, out |-> o, werr |-> FALSE, warn |-> "", aborted |-> FALSE]

RECURSIVE KcountFieldsUncounted(_, _, _, _, _)
\* the fields of a kcount record taken without the test of lines 237-241
\* ("found more samples than declared")
KcountFieldsUncounted(fields, k, d, o, wfail) ==
  IF k > Len(fields)
  THEN AppendOk(IF d.sample_count = d.sample_total
                THEN [d EXCEPT !.state = "RAWARC"] ELSE d, o)
  ELSE LET p == fields[k]
           s == DecodeSample(p, 1, 0)
       IN IF Len(p) # 4 THEN AppendError(d, o, FALSE, "kcount: sample is invalid")
          ELSE IF s.bad THEN AppendError(d, o, FALSE, "kcount: sample is invalid")
          ELSE IF wfail = 1 THEN AppendError(d, o, TRUE, "write")
          ELSE KcountFieldsUncounted(fields, k + 1, [d EXCEPT !.sample_count = @ + 1],
                                     Append(o, [kind |-> "sample", v |-> s.val]),
                                     IF wfail > 1 THEN wfail - 1 ELSE 0)

RECURSIVE KcountFields(_, _, _, _, _)
\* lines 230-262: the fields after the tag, from the k-th token on; wfail is
\* the number of the fwrite(3) that fails (0: none)
KcountFields(fields, k, d, o, wfail) ==
  IF k > Len(fields)
  THEN AppendOk(IF d.sample_count = d.sample_total
                THEN [d EXCEPT !.state = "RAWARC"] ELSE d, o)
  ELSE LET p == fields[k]
           s == DecodeSample(p, 1, 0)
       IN IF Len(p) # 4 THEN AppendError(d, o, FALSE, "kcount: sample is invalid")
          ELSE IF d.sample_count = d.sample_total
          THEN AppendError(d, o, FALSE, "kcount: found more samples")
          ELSE IF s.bad THEN AppendError(d, o, FALSE, "kcount: sample is invalid")
          ELSE IF wfail = 1 THEN AppendError(d, o, TRUE, "write")
          ELSE KcountFields(fields, k + 1, [d EXCEPT !.sample_count = @ + 1],
                            Append(o, [kind |-> "sample", v |-> s.val]),
                            IF wfail > 1 THEN wfail - 1 ELSE 0)

\* gmon_append(fp, path, de, ktrace_path, trace): the cursor and the file it
\* leaves, and the warning it prints
gmon_append(d, o, trace, wfail) ==
  CASE d.state = "HEADER" ->
         LET v == Sscanf(trace, TagGmonhdr, 5) IN
         IF Len(v) # 5 THEN AppendError(d, o, FALSE, "gmonhdr")
         ELSE IF v[3] < SizeofGmonhdr
         THEN AppendError(d, o, FALSE, "gmonhdr: ncnt is invalid")
         ELSE IF wfail = 1 THEN AppendError(d, o, TRUE, "write")
         ELSE AppendOk([sample_count |-> 0,
                        sample_total |-> (v[3] - SizeofGmonhdr) \div 2,
                        state |-> "KCOUNT"],
                       Append(o, [kind |-> "gmonhdr",
                                  hdr |-> [lpc |-> v[1], hpc |-> v[2], ncnt |-> v[3],
                                           version |-> v[4], profrate |-> v[5]]]))
    [] d.state = "KCOUNT" ->
         LET fields == Strsep(trace) IN
         IF fields[1] # TagKcount THEN AppendError(d, o, FALSE, "kcount")
         ELSE KcountFields(fields, 2, d, o, wfail)
    [] d.state = "RAWARC" ->
         IF trace = TagFooter THEN AppendOk([d EXCEPT !.state = "FOOTER"], o)
         ELSE LET v == Sscanf(trace, TagRawarc, 3) IN
              IF Len(v) # 3 THEN AppendError(d, o, FALSE, "rawarc")
              ELSE IF wfail = 1 THEN AppendError(d, o, TRUE, "write")
              ELSE AppendOk(d, Append(o, [kind |-> "rawarc",
                                          arc |-> [raw_frompc |-> v[1],
                                                   raw_selfpc |-> v[2],
                                                   raw_count |-> v[3]]]))
    [] OTHER -> \* FOOTER, ERROR: abort()
         [de |-> d, out |-> o, werr |-> FALSE, warn |-> "", aborted |-> TRUE]

(***************************************************************************)
(* ktrace_extract.                                                         *)
(***************************************************************************)
\* a ktrace_extract without the test of lines 142-145 (de.state == HEADER)
ExtractResultNoHeaderCase(d, ferr, flushed, warned, eof) ==
  IF ferr THEN [status |-> "returned", file |-> FALSE, warn |-> "read", eof |-> eof]
  ELSE IF d.state = "ERROR"
  THEN [status |-> "returned", file |-> FALSE, warn |-> warned, eof |-> eof]
  ELSE IF d.state # "FOOTER"
  THEN [status |-> "returned", file |-> FALSE,
        warn |-> "found incomplete moncontrol record set", eof |-> eof]
  ELSE IF ~flushed
  THEN [status |-> "returned", file |-> FALSE, warn |-> "flush", eof |-> eof]
  ELSE [status |-> "returned", file |-> TRUE, warn |-> "", eof |-> eof]

\* a ktrace_extract without the test of lines 146-150 (de.state != FOOTER)
ExtractResultNoFooterCase(d, ferr, flushed, warned, eof) ==
  IF ferr THEN [status |-> "returned", file |-> FALSE, warn |-> "read", eof |-> eof]
  ELSE IF d.state = "ERROR"
  THEN [status |-> "returned", file |-> FALSE, warn |-> warned, eof |-> eof]
  ELSE IF d.state = "HEADER"
  THEN [status |-> "returned", file |-> FALSE,
        warn |-> "no moncontrol record set found", eof |-> eof]
  ELSE IF ~flushed
  THEN [status |-> "returned", file |-> FALSE, warn |-> "flush", eof |-> eof]
  ELSE [status |-> "returned", file |-> TRUE, warn |-> "", eof |-> eof]

\* lines 135-173: what ktrace_extract returns once the loop is left; ferr is
\* ferror(kfp), flushed whether fflush(3) and fseek(3) succeeded, warned the
\* warning gmon_append gave
ExtractResult(d, ferr, flushed, warned, eof) ==
  IF ferr THEN [status |-> "returned", file |-> FALSE, warn |-> "read", eof |-> eof]
  ELSE IF d.state = "ERROR"
  THEN [status |-> "returned", file |-> FALSE, warn |-> warned, eof |-> eof]
  ELSE IF d.state = "HEADER"
  THEN [status |-> "returned", file |-> FALSE,
        warn |-> "no moncontrol record set found", eof |-> eof]
  ELSE IF d.state # "FOOTER"
  THEN [status |-> "returned", file |-> FALSE,
        warn |-> "found incomplete moncontrol record set", eof |-> eof]
  ELSE IF ~flushed
  THEN [status |-> "returned", file |-> FALSE, warn |-> "flush", eof |-> eof]
  ELSE [status |-> "returned", file |-> TRUE, warn |-> "", eof |-> eof]

\* lines 80-109: the temporary file cannot be made, or the trace does not
\* start with a KTR_START header
ExtractSetupFails ==
  /\ xret.status = "loop"
  /\ consumed = << >>
  /\ kt.read = 0
  /\ xret' = [status |-> "returned", file |-> FALSE, warn |-> "setup", eof |-> FALSE]
  /\ UNCHANGED << de, out, consumed, werr, kt >>
  /\ UNCHANGED captureVars
  /\ UNCHANGED otherVars

\* a loop that would be left at FOOTER only
LoopLeftAtFooter(d) == d.state = "FOOTER"

\* lines 133-134: the test that leaves the loop after gmon_append
LoopLeft(d) == d.state = "FOOTER" \/ d.state = "ERROR"

\* the number of the failing fwrite(3) in one call of gmon_append
WriteFailures(trace) == 0..(Len(Strsep(trace)) - 1)

\* GMON_LABEL, "_openbsd_libc_gmon"
GMON_LABEL ==
  << "_", "o", "p", "e", "n", "b", "s", "d", "_", "l", "i", "b", "c", "_", "g", "m", "o", "n" >>

GMON_LABEL_LEN == Len(GMON_LABEL)

\* the i-th byte of a string held in a zero-filled array
ByteOf(str, i) == IF i <= Len(str) THEN str[i] ELSE "NUL"

\* memcmp(a, b, n) == 0
MemcmpEqual(a, b, n) == \A i \in 1..n : ByteOf(a, i) = ByteOf(b, i)

\* lines 113-127: the filter of the loop for one record of the trace; k holds
\* target_pid, have_pid and pid (pid is not read before have_pid is set)
Filter(k, rec) ==
  IF rec.type # "KTR_USER" THEN [take |-> FALSE, kt |-> k]
  ELSE IF ~MemcmpEqual(rec.label, GMON_LABEL, GMON_LABEL_LEN)
  THEN [take |-> FALSE, kt |-> k]
  ELSE IF ~k.have_pid /\ k.target_pid # -1 /\ rec.pid # k.target_pid
  THEN [take |-> FALSE, kt |-> k]
  ELSE LET k1 == IF ~k.have_pid THEN [k EXCEPT !.pid = rec.pid, !.have_pid = TRUE]
                 ELSE k
       IN [take |-> k1.pid = rec.pid, kt |-> k1]

\* lines 111-134: one record ktrace_next returns is filtered and, if it is of
\* the session, handed to gmon_append; and the rest of the function when the
\* loop is left by the break
ExtractAppend(rec, wfail, flushed) ==
  /\ xret.status = "loop"
  /\ \E f \in { Filter(kt, rec) } :
       /\ kt' = [f.kt EXCEPT !.read = @ + 1]
       /\ IF ~f.take THEN UNCHANGED << de, out, consumed, werr, xret >>
          ELSE \E r \in { gmon_append(de, out, rec.trace, wfail) } :
            /\ de' = r.de
            /\ out' = r.out
            /\ werr' = (werr \/ r.werr)
            /\ consumed' = Append(consumed, [trace |-> rec.trace, from |-> de.state,
                                             count |-> de.sample_count,
                                             total |-> de.sample_total,
                                             to |-> IF r.aborted THEN "abort" ELSE r.de.state,
                                             type |-> rec.type, label |-> rec.label,
                                             pid |-> rec.pid])
            /\ xret' = IF r.aborted
                       THEN [status |-> "aborted", file |-> FALSE, warn |-> "", eof |-> FALSE]
                       ELSE IF LoopLeft(r.de)
                       THEN ExtractResult(r.de, FALSE, flushed, r.warn, FALSE)
                       ELSE xret
  /\ UNCHANGED captureVars
  /\ UNCHANGED otherVars

\* ktrace_next returns -1: the input is exhausted, or could not be read
\* (the cursor is not at FOOTER inside the loop, so fflush is not reached)
ExtractEof(ferr) ==
  /\ xret.status = "loop"
  /\ xret' = ExtractResult(de, ferr, TRUE, "", TRUE)
  /\ UNCHANGED << de, out, consumed, werr, kt >>
  /\ UNCHANGED captureVars
  /\ UNCHANGED otherVars

\* the trace holds what the instrumented process emitted, and is read once
\* the process is over; the temporary file takes every write
Replay(flushed) ==
  /\ pc \in { "out", "abort" }
  /\ Len(consumed) < Len(chan)
  /\ ExtractAppend([type |-> "KTR_USER", label |-> GMON_LABEL, pid |-> 1,
                    trace |-> chan[Len(consumed) + 1]], 0, flushed)

ReplayEof ==
  /\ pc \in { "out", "abort" }
  /\ Len(consumed) = Len(chan)
  /\ ExtractEof(FALSE)

(***************************************************************************)
(* The instrumented process followed by the extraction of its trace.       *)
(***************************************************************************)
StartArgs == { << 0, 1 >>, << 2, MaxPc >> }

InitGmon(lens, targets) ==
  /\ gmonparam = [state |-> "GMON_PROF_OFF", lowpc |-> 0, highpc |-> 0, textsize |-> 0,
                  kcountsize |-> 0, hashfraction |-> 0, fromssize |-> 0, tolimit |-> 0,
                  tossize |-> 0, kcount |-> NULL, froms |-> NULL, tos |-> NULL]
  /\ s_scale = 0
  /\ profil = ProfilOff
  /\ pc = "start"
  /\ maxlen \in lens
  /\ mc = [i |-> 0, fromindex |-> 0, toindex |-> 0]
  /\ chan = << >>
  /\ sent = << >>
  /\ lost = 0
  /\ diag = << >>
  /\ de = [sample_count |-> 0, sample_total |-> 0, state |-> "HEADER"]
  /\ out = << >>
  /\ consumed = << >>
  /\ werr = FALSE
  /\ xret = [status |-> "loop", file |-> FALSE, warn |-> "", eof |-> FALSE]
  /\ \E t \in targets : kt = [target_pid |-> t, have_pid |-> FALSE, pid |-> 0, read |-> 0]
  /\ mapped = { }
  /\ hist = [args |-> << >>, overflowed |-> FALSE, last |-> << >>, calls |-> { }]

\* table-proc before table_proc_open: no handle, nothing read
TpClosed ==
  [phase |-> "closed", services |-> { }, lastid |-> << >>, lines |-> << >>,
   ret |-> [op |-> "none"], calls |-> 0]

\* mg with an empty buffer
ElEmpty == [lines |-> << << >> >>, dotp |-> 1, doto |-> 0, last |-> << >>]

InitWith(lens, targets) ==
  /\ InitGmon(lens, targets)
  /\ tp = TpClosed
  /\ el = ElEmpty

Init == InitWith({ KTR_USER_MAXLEN }, { -1 })

Next ==
  \/ \E a \in StartArgs, failing \in 0..3 : monstartup(a[1], a[2], failing)
  \/ \E mode \in { 0, 1 } : moncontrol(mode)
  \/ \E f \in CallerPcs(gmonparam), s \in CalleePcs(gmonparam) : record(f, s)
  \/ \E at \in { gmonparam.lowpc, gmonparam.highpc - 1 }, v \in SampleValues :
       ProfilTick(at, v)
  \/ \E clk \in ClockInfos, ok \in BOOLEAN : McleanupHeader(clk, ok)
  \/ \E ok \in BOOLEAN : McleanupKcount(ok)
  \/ \E ok \in BOOLEAN : McleanupRawarc(ok)
  \/ \E ok \in BOOLEAN : McleanupFooter(ok)
  \/ \E flushed \in BOOLEAN : Replay(flushed)
  \/ ReplayEof

Spec == Init /\ [][Next]_vars

\* the same program built with other values of KTR_USER_MAXLEN
InitM == InitWith(MinMaxLen..MaxMaxLen, { -1 })

SpecM == InitM /\ [][Next]_vars

(***************************************************************************)
(* monstartup alone, over every pair of arguments up to MaxPc.             *)
(***************************************************************************)
OpenArgs == { a \in (0..MaxPc) \X (0..MaxPc) : a[1] < a[2] }

NextOpen == \E a \in OpenArgs, failing \in 0..3 : monstartup(a[1], a[2], failing)

SpecOpen == Init /\ [][NextOpen]_vars

(***************************************************************************)
(* ktrace_extract over an arbitrary trace: the records below, in any order. *)
(***************************************************************************)
\* "gmonhdr 0 8 2c 51879 64": a header declaring two samples (ncnt = 0x2c = 40 + 4)
RecHdrTwo ==
  << "g", "m", "o", "n", "h", "d", "r", " ", "0", " ", "8", " ", "2", "c", " ", "5", "1", "8", "7", "9", " ", "6", "4" >>

\* "gmonhdr 0 8 2b 51879 64": a header declaring three bytes of histogram
\* (ncnt = 0x2b = 40 + 3)
RecHdrOdd ==
  << "g", "m", "o", "n", "h", "d", "r", " ", "0", " ", "8", " ", "2", "b", " ", "5", "1", "8", "7", "9", " ", "6", "4" >>

\* "gmonhdr 0 8 28 51879 0": a header declaring no sample
RecHdrNone ==
  << "g", "m", "o", "n", "h", "d", "r", " ", "0", " ", "8", " ", "2", "8", " ", "5", "1", "8", "7", "9", " ", "0" >>

\* "gmonhdr 0 8 27 51879 64": ncnt below sizeof(struct gmonhdr)
RecHdrSmall ==
  << "g", "m", "o", "n", "h", "d", "r", " ", "0", " ", "8", " ", "2", "7", " ", "5", "1", "8", "7", "9", " ", "6", "4" >>

\* "gmonhdr 0 8 2c 51879": four values only
RecHdrShort ==
  << "g", "m", "o", "n", "h", "d", "r", " ", "0", " ", "8", " ", "2", "c", " ", "5", "1", "8", "7", "9" >>

\* "kcount": the tag alone
RecKcEmpty ==
  << "k", "c", "o", "u", "n", "t" >>

\* "kcount 0019": one sample, decimal digits only
RecKcOne ==
  << "k", "c", "o", "u", "n", "t", " ", "0", "0", "1", "9" >>

\* "kcount 000a ffff": two samples with the digits a and f
RecKcTwo ==
  << "k", "c", "o", "u", "n", "t", " ", "0", "0", "0", "a", " ", "f", "f", "f", "f" >>

\* "kcount 0001 0002 0003": three samples
RecKcThree ==
  << "k", "c", "o", "u", "n", "t", " ", "0", "0", "0", "1", " ", "0", "0", "0", "2", " ", "0", "0", "0", "3" >>

\* "kcount 00:0": a colon inside a field
RecKcColon ==
  << "k", "c", "o", "u", "n", "t", " ", "0", "0", ":", "0" >>

\* "kcount 0G0_": an upper-case letter and an underscore inside a field
RecKcUpper ==
  << "k", "c", "o", "u", "n", "t", " ", "0", "G", "0", "_" >>

\* "kcount 00g0": a letter after f inside a field
RecKcAbove ==
  << "k", "c", "o", "u", "n", "t", " ", "0", "0", "g", "0" >>

\* "kcount 00/0": a character before 0 inside a field
RecKcBelow ==
  << "k", "c", "o", "u", "n", "t", " ", "0", "0", "/", "0" >>

\* "kcount 123": a field of three characters
RecKcThin ==
  << "k", "c", "o", "u", "n", "t", " ", "1", "2", "3" >>

\* "kcount 0001 ": a trailing space: an empty last field
RecKcTrail ==
  << "k", "c", "o", "u", "n", "t", " ", "0", "0", "0", "1", " " >>

\* "rawarc 4 5 1": an arc
RecArcOk ==
  << "r", "a", "w", "a", "r", "c", " ", "4", " ", "5", " ", "1" >>

\* "rawarc 4 5": an arc with two values
RecArcShort ==
  << "r", "a", "w", "a", "r", "c", " ", "4", " ", "5" >>

\* "footer": the footer
RecFooter ==
  << "f", "o", "o", "t", "e", "r" >>

Pool ==
  { RecHdrTwo,
    RecHdrOdd,
    RecHdrNone,
    RecHdrSmall,
    RecHdrShort,
    RecKcEmpty,
    RecKcOne,
    RecKcTwo,
    RecKcThree,
    RecKcColon,
    RecKcUpper,
    RecKcAbove,
    RecKcBelow,
    RecKcThin,
    RecKcTrail,
    RecArcOk,
    RecArcShort,
    RecFooter }

\* the processes of the trace, and the values of target_pid (-1: gprof was
\* not given a pid)
Pids == { 1, 2 }
TargetPids == { -1 } \cup Pids

\* "_openbsd_libc_gmon2" and "other": labels of other users of utrace(2)
LabelLonger == GMON_LABEL \o << "2" >>
LabelOther == << "o", "t", "h", "e", "r" >>

\* the records of the trace: those of libc's gmon for each process, a record
\* that is not of utrace(2), and records of utrace(2) under other labels
Records ==
  { [type |-> "KTR_USER", label |-> GMON_LABEL, pid |-> p, trace |-> t] :
      p \in Pids, t \in Pool }
  \cup { [type |-> "KTR_SYSCALL", label |-> GMON_LABEL, pid |-> p, trace |-> RecFooter] :
           p \in Pids }
  \cup { [type |-> "KTR_USER", label |-> l, pid |-> p, trace |-> t] :
           l \in { LabelLonger, LabelOther }, p \in Pids, t \in { RecHdrTwo, RecFooter } }

Feed(rec, wfail, flushed) ==
  /\ kt.read < MaxFeed
  /\ ExtractAppend(rec, wfail, flushed)

NextDe ==
  \/ ExtractSetupFails
  \/ \E rec \in Records : \E wfail \in WriteFailures(rec.trace), flushed \in BOOLEAN :
       Feed(rec, wfail, flushed)
  \/ \E ferr \in BOOLEAN : ExtractEof(ferr)

InitDe == InitWith({ KTR_USER_MAXLEN }, TargetPids)

SpecDe == InitDe /\ [][NextDe]_vars

(***************************************************************************)
(* Vocabulary of the properties.                                           *)
(***************************************************************************)
HasPrefix(trace, tag) == Len(trace) >= Len(tag) /\ SubSeq(trace, 1, Len(tag)) = tag

\* the kind of a wire record, by its tag
Kind(trace) ==
  IF HasPrefix(trace, TagGmonhdr) THEN "gmonhdr"
  ELSE IF HasPrefix(trace, TagKcount) THEN "kcount"
  ELSE IF HasPrefix(trace, TagRawarc) THEN "rawarc"
  ELSE IF trace = TagFooter THEN "footer"
  ELSE "other"

\* the fields that follow the tag: one per space
FieldCount(trace) == Cardinality({ i \in 1..Len(trace) : trace[i] = " " })

\* the value a string of hexadecimal digits denotes
HexDigitValue(c) == (CHOOSE i \in 1..16 : HexChars[i] = c) - 1
IsHexDigit(c) == \E i \in 1..16 : HexChars[i] = c
RECURSIVE HexValue(_)
HexValue(f) ==
  IF f = << >> THEN 0
  ELSE HexValue(SubSeq(f, 1, Len(f) - 1)) * 16 + HexDigitValue(f[Len(f)])

\* _mcleanup has returned and its last record is the footer
FooterSent == Len(sent) > 0 /\ sent[Len(sent)].kind = "footer"

RECURSIVE FileOf(_)
\* the gmon.out file a sequence of emitted values stands for: the header
\* struct, the samples, the arc structs
FileOf(records) ==
  IF records = << >> THEN << >>
  ELSE LET r == records[1]
           rest == FileOf(Tail(records))
       IN IF r.kind = "gmonhdr" THEN << [kind |-> "gmonhdr", hdr |-> r.hdr] >> \o rest
          ELSE IF r.kind = "kcount"
          THEN [k \in 1..Len(r.samples) |-> [kind |-> "sample", v |-> r.samples[k]]] \o rest
          ELSE IF r.kind = "rawarc" THEN << [kind |-> "rawarc", arc |-> r.arc] >> \o rest
          ELSE rest

(***************************************************************************)
(* C1.  Round trip: the records of a finalization all of whose emits       *)
(* succeeded, fed one by one to gmon_append, end in FOOTER without passing *)
(* through ERROR, and the file written holds the header, the samples and   *)
(* the arcs that were serialized, value for value.                         *)
(***************************************************************************)
C1_RoundTrip ==
  (pc = "out" /\ FooterSent /\ Len(consumed) = Len(chan))
    => /\ de.state = "FOOTER"
       /\ \A k \in 1..Len(consumed) : consumed[k].to # "ERROR"
       /\ out = FileOf(sent)

\* a round trip that does reproduce the file: no sample has a digit above 9
C1_RoundTripOfDecimalDigits ==
  /\ pc = "out" /\ FooterSent /\ Len(consumed) = Len(chan)
  /\ de.state = "FOOTER"
  /\ out = FileOf(sent)
  /\ \E k \in 1..Len(sent) : sent[k].kind = "rawarc"

(***************************************************************************)
(* Vocabulary of the properties about gmon_append and ktrace_extract.      *)
(***************************************************************************)
\* the kinds of the records consumed so far, in order
ConsumedKinds == [k \in 1..Len(consumed) |-> Kind(consumed[k].trace)]

\* the sample total a header record declares: its third value is ncnt, the
\* size in bytes of the header struct and of the two-byte samples
DeclaredTotal(trace) == (HexValue(Strsep(trace)[4]) - SizeofGmonhdr) \div SizeofHistcounter

RECURSIVE SamplesSupplied(_)
\* the number of samples the kcount records of a sequence of kinds and
\* records supply
SamplesSupplied(records) ==
  IF records = << >> THEN 0
  ELSE (IF Kind(records[1].trace) = "kcount" THEN FieldCount(records[1].trace) ELSE 0)
       + SamplesSupplied(Tail(records))

\* header, kcount records, rawarc records, footer: in this order
InGrammarOrder(kinds) ==
  /\ Len(kinds) >= 2
  /\ kinds[1] = "gmonhdr"
  /\ kinds[Len(kinds)] = "footer"
  /\ \E m \in 1..(Len(kinds) - 1) :
       /\ \A k \in 2..m : kinds[k] = "kcount"
       /\ \A k \in (m + 1)..(Len(kinds) - 1) : kinds[k] = "rawarc"

\* the kinds that do not belong to a cursor state
OutOfOrder(state) ==
  CASE state = "HEADER" -> { "kcount", "rawarc", "footer" }
    [] state = "KCOUNT" -> { "gmonhdr", "rawarc", "footer" }
    [] state = "RAWARC" -> { "gmonhdr", "kcount" }
    [] OTHER -> { }

(***************************************************************************)
(* C2.  The cursor reaches FOOTER only if the records consumed are exactly *)
(* one header, then kcount records whose samples total the declared        *)
(* sample_total, then zero or more rawarc records, then one footer; and a  *)
(* record whose kind does not belong to the state it meets (kcount, rawarc *)
(* or footer in HEADER; header, rawarc or footer in KCOUNT; header or      *)
(* kcount in RAWARC) leaves the state ERROR.                               *)
(***************************************************************************)
C2_FooterOnlyByGrammar ==
  /\ de.state = "FOOTER"
       => /\ InGrammarOrder(ConsumedKinds)
          /\ SamplesSupplied(consumed) = DeclaredTotal(consumed[1].trace)
          /\ de.sample_total = DeclaredTotal(consumed[1].trace)
  /\ \A k \in 1..Len(consumed) :
       Kind(consumed[k].trace) \in OutOfOrder(consumed[k].from)
         => consumed[k].to = "ERROR"

\* FOOTER reached through a header, two samples, an arc and the footer
C2_FooterAfterArc ==
  /\ de.state = "FOOTER"
  /\ Len(consumed) = 4
  /\ consumed[1].trace = RecHdrTwo
  /\ consumed[2].trace = RecKcTwo
  /\ consumed[3].trace = RecArcOk
  /\ consumed[4].trace = RecFooter

(***************************************************************************)
(* C4.  With a header declaring sample_total = T: a kcount record that     *)
(* brings the samples supplied above T leaves the state ERROR, whether the *)
(* excess is in the record that reaches T or in a further kcount record; a *)
(* rawarc record or the footer met while fewer than T samples were         *)
(* supplied leaves the state ERROR; and the state goes from KCOUNT to      *)
(* RAWARC only with sample_count = T.                                      *)
(***************************************************************************)
C4_SampleTotalIsExact ==
  /\ \A k \in 1..Len(consumed) :
       LET c == consumed[k]
           kind == Kind(c.trace)
       IN /\ (c.from = "KCOUNT" /\ kind = "kcount"
                /\ c.count + FieldCount(c.trace) > c.total) => c.to = "ERROR"
          /\ (c.from = "RAWARC" /\ kind = "kcount") => c.to = "ERROR"
          /\ (c.from = "KCOUNT" /\ kind \in { "rawarc", "footer" }) => c.to = "ERROR"
          /\ (c.from = "KCOUNT" /\ c.to = "RAWARC")
               => /\ kind = "kcount"
                  /\ c.count + FieldCount(c.trace) = c.total
  /\ de.state \in { "RAWARC", "FOOTER" } => de.sample_count = de.sample_total

\* a header declaring two samples followed by a record of three, and a
\* header declaring two followed by one sample and then an arc
C4_OneTooMany ==
  /\ Len(consumed) >= 2
  /\ consumed[1].trace = RecHdrTwo
  /\ consumed[2].trace = RecKcThree
  /\ consumed[2].to = "ERROR"
  /\ out = << out[1], [kind |-> "sample", v |-> 1], [kind |-> "sample", v |-> 2] >>

(***************************************************************************)
(* C5.  In state KCOUNT a kcount record with a field that is not exactly   *)
(* four hexadecimal digits leaves the state ERROR, and the samples a       *)
(* record appends are the values its four-digit fields denote.             *)
(***************************************************************************)
IsHexField(f) == Len(f) = 4 /\ \A i \in 1..4 : IsHexDigit(f[i])

C5_FieldsAreHexadecimal ==
  \A k \in 1..Len(consumed) :
    LET c == consumed[k]
        fields == Strsep(c.trace)
    IN (c.from = "KCOUNT" /\ fields[1] = TagKcount)
         => /\ (\E i \in 2..Len(fields) : ~IsHexField(fields[i])) => c.to = "ERROR"
            /\ c.to # "ERROR"
                 => \A i \in 2..Len(fields) :
                      out[1 + c.count + (i - 1)] = [kind |-> "sample", v |-> HexValue(fields[i])]

(***************************************************************************)
(* C6.  When the input is exhausted with the cursor in HEADER, KCOUNT or   *)
(* RAWARC, ktrace_extract warns that the record set is incomplete and the  *)
(* state is not ERROR.                                                     *)
(***************************************************************************)
Exhausted == xret.status = "returned" /\ xret.eof /\ xret.warn # "read"

C6_ExhaustedIsIncomplete ==
  (Exhausted /\ de.state # "FOOTER")
    => /\ xret.warn = "found incomplete moncontrol record set"
       /\ de.state # "ERROR"

(***************************************************************************)
(* C6, as the code has it.  When the input is exhausted with the cursor in *)
(* KCOUNT or RAWARC, ktrace_extract warns "found incomplete moncontrol     *)
(* record set"; with the cursor in HEADER it warns "no moncontrol record   *)
(* set found"; in both cases it returns no file and the state is not       *)
(* ERROR.  The cursor is never FOOTER or ERROR when the input is           *)
(* exhausted.                                                              *)
(***************************************************************************)
C6_ExhaustedIsIncompleteOrEmpty ==
  Exhausted
    => /\ de.state \in { "HEADER", "KCOUNT", "RAWARC" }
       /\ ~xret.file
       /\ de.state \in { "KCOUNT", "RAWARC" }
            => xret.warn = "found incomplete moncontrol record set"
       /\ de.state = "HEADER" => xret.warn = "no moncontrol record set found"

\* a header, its two samples and an arc, then the end of the input
C6_NoFooter ==
  /\ Exhausted
  /\ de.state = "RAWARC"
  /\ Len(consumed) = 3
  /\ consumed[3].trace = RecArcOk
  /\ xret.warn = "found incomplete moncontrol record set"

(***************************************************************************)
(* Vocabulary of the properties about _mcleanup.                           *)
(***************************************************************************)
RECURSIVE ChainOf(_, _)
\* the arcs of the chain that starts at toindex, head first
ChainOf(tos, toindex) ==
  IF toindex = 0 THEN << >>
  ELSE << toindex >> \o ChainOf(tos, tos[toindex].link)

RECURSIVE ArcsOfSlots(_, _, _)
\* the arcs reachable from the slots first .. end-1 of the From-table, slots
\* in ascending order, each arc with its slot
ArcsOfSlots(p, first, end) ==
  IF first >= end THEN << >>
  ELSE LET chain == ChainOf(p.tos, p.froms[first])
       IN [k \in 1..Len(chain) |-> [slot |-> first, arc |-> chain[k]]]
          \o ArcsOfSlots(p, first + 1, end)

\* the slots of two bytes that fromssize bytes hold
ScannedSlots(p) == p.fromssize \div 2

\* the record of an arc: the caller address rebuilt from the slot, the callee
\* and the hit count
ArcRecord(p, a) ==
  [raw_frompc |-> p.lowpc + a.slot * p.hashfraction * 2,
   raw_selfpc |-> p.tos[a.arc].selfpc,
   raw_count |-> p.tos[a.arc].count]

\* the rawarc records due for the arcs of the slots _mcleanup is to scan
ExpectedArcs(p) ==
  LET arcs == ArcsOfSlots(p, 0, ScannedSlots(p))
  IN [k \in 1..Len(arcs) |-> ArcRecord(p, arcs[k])]

\* every arc the Arc Recorder has recorded, with its bucket
RecordedArcs(p) == ArcsOfSlots(p, 0, p.fromssize)

IsRawarc(r) == r.kind = "rawarc"

\* the arcs of the rawarc records emitted so far
SentArcs == LET rs == SelectSeq(sent, IsRawarc) IN [k \in 1..Len(rs) |-> rs[k].arc]

IsKcount(r) == r.kind = "kcount"

RECURSIVE Flatten(_)
Flatten(ss) == IF ss = << >> THEN << >> ELSE ss[1].samples \o Flatten(Tail(ss))

\* the samples of the kcount records emitted so far
SentSamples == Flatten(SelectSeq(sent, IsKcount))

IsPrefix(a, b) == Len(a) <= Len(b) /\ a = SubSeq(b, 1, Len(a))

\* the kinds of the records on the channel, in order
ChanKinds == [k \in 1..Len(chan) |-> Kind(chan[k])]

CountOf(kinds, kind) == Cardinality({ k \in 1..Len(kinds) : kinds[k] = kind })

\* _mcleanup has been entered (the regions exist)
Finalizing == pc \in { "kcount", "rawarc", "out", "abort" }

\* _mcleanup has returned and every emit succeeded
Complete == pc = "out" /\ lost = 0

\* the arc pool was never found exhausted
NoOverflow == ~hist.overflowed

(***************************************************************************)
(* C3.  When every emit succeeds, the records one run of _mcleanup emits   *)
(* are one header, then one or more kcount records, then one rawarc record *)
(* per arc reachable from the From-table, then one footer; the footer is   *)
(* the last record and _mcleanup has returned once it is on the channel.   *)
(***************************************************************************)
C3_RecordSequence ==
  /\ Complete
       => /\ InGrammarOrder(ChanKinds)
          /\ CountOf(ChanKinds, "gmonhdr") = 1
          /\ CountOf(ChanKinds, "kcount") >= 1
          /\ CountOf(ChanKinds, "rawarc")
               = Len(ArcsOfSlots(gmonparam, 0, ScannedSlots(gmonparam)))
          /\ CountOf(ChanKinds, "footer") = 1
  /\ \A k \in 1..Len(chan) : chan[k] = TagFooter => (k = Len(chan) /\ pc = "out")

\* a complete run with two kcount records and two arcs
C3_TwoKcountTwoArcs ==
  /\ Complete
  /\ CountOf(ChanKinds, "kcount") = 2
  /\ CountOf(ChanKinds, "rawarc") = 2
  /\ ChanKinds[Len(chan)] = "footer"

(***************************************************************************)
(* C7.  Whatever the maximum record length M of the channel (ubuf holding  *)
(* M + 1 bytes), every kcount record _mcleanup emits is 6 + 5k characters  *)
(* long for its k samples and no longer than M, and the assertions of the  *)
(* packing loop never fail.                                                *)
(***************************************************************************)
C7_KcountRecordsFit ==
  /\ pc # "abort"
  /\ \A k \in 1..Len(chan) :
       Kind(chan[k]) = "kcount"
         => /\ Len(chan[k]) = 6 + 5 * FieldCount(chan[k])
            /\ Len(chan[k]) <= maxlen

(***************************************************************************)
(* C8.  Once an emit of _mcleanup has failed, no further record is emitted *)
(* and _mcleanup has returned; a footer on the channel implies that no     *)
(* emit failed and that the header, every sample of the histogram and a    *)
(* rawarc record for every arc of the scanned slots precede it.            *)
(***************************************************************************)
C8_FailureStopsEmission ==
  /\ lost # 0 => (pc = "out" /\ Len(chan) = lost - 1)
  /\ FooterSent
       => /\ lost = 0
          /\ sent[1].kind = "gmonhdr"
          /\ SentSamples = gmonparam.kcount
          /\ SentArcs = ExpectedArcs(gmonparam)
          /\ Len(sent) = 1 + CountOf(ChanKinds, "kcount") + Len(SentArcs) + 1

\* the emit of the second of two rawarc records fails: the first is the
\* last record on the channel and there is no footer
C8_SecondArcLost ==
  /\ pc = "out"
  /\ lost = Len(chan) + 1
  /\ Len(SentArcs) = 1
  /\ Len(ExpectedArcs(gmonparam)) = 2
  /\ ChanKinds[Len(chan)] = "rawarc"

(***************************************************************************)
(* C9.  The rawarc records _mcleanup emits are those of the arcs reachable *)
(* from the non-empty slots of the From-table, slots in ascending order    *)
(* and the arcs of a slot in chain order from its head, each with          *)
(* frompc = lowpc + slot * hashfraction * sizeof *froms, the selfpc and    *)
(* the count of the arc: at every moment a prefix of that sequence, and    *)
(* the whole of it once _mcleanup has returned with every emit succeeding. *)
(***************************************************************************)
C9_ArcsInScanOrder ==
  Finalizing
    => /\ IsPrefix(SentArcs, ExpectedArcs(gmonparam))
       /\ Complete => SentArcs = ExpectedArcs(gmonparam)

\* a complete run over a From-table with an arc in slot 0, an arc in slot 1
\* and empty slots after them
C9_TwoSlots ==
  /\ Complete
  /\ Len(SentArcs) = 2
  /\ SentArcs[1].raw_frompc = gmonparam.lowpc
  /\ SentArcs[2].raw_frompc = gmonparam.lowpc + 4
  /\ ScannedSlots(gmonparam) > 2

OverflowReported == \E i \in 1..Len(diag) : diag[i] = "_mcleanup: tos overflow"

\* the header, every sample, the arcs of the scanned slots and the footer
\* are on the channel
FullDump ==
  /\ InGrammarOrder(ChanKinds)
  /\ sent[1].kind = "gmonhdr"
  /\ SentSamples = gmonparam.kcount
  /\ SentArcs = ExpectedArcs(gmonparam)
  /\ FooterSent

(***************************************************************************)
(* C11.  Once the arc pool has been found exhausted, whatever calls of     *)
(* record and moncontrol follow, _mcleanup writes the arc-overflow         *)
(* diagnostic, and (when every emit succeeds) still emits the header, the  *)
(* histogram, the arcs captured and the footer.                            *)
(***************************************************************************)
C11_OverflowReported ==
  /\ (hist.overflowed /\ Finalizing) => OverflowReported
  /\ (hist.overflowed /\ Complete) => FullDump

\* the runs in which the diagnostic is written: the dump is complete
C11_OverflowThenDump ==
  /\ hist.overflowed
  /\ Complete
  /\ OverflowReported
  /\ FullDump
  /\ Len(SentArcs) >= 1

C13_ErrorIsTerminal ==
  [][\A mode \in { 0, 1 } :
       moncontrol(mode)
         => /\ gmonparam.state = "GMON_PROF_ERROR" => gmonparam'.state = "GMON_PROF_ERROR"
            /\ gmonparam'.state # gmonparam.state
                 => << gmonparam.state, gmonparam'.state >>
                      \in { << "GMON_PROF_OFF", "GMON_PROF_ON" >>,
                            << "GMON_PROF_ON", "GMON_PROF_OFF" >> }]_vars

(***************************************************************************)
(* C14.  A call of moncontrol(mode) that follows a call with the same mode *)
(* leaves the session, the scale, the regions and the sampling source as   *)
(* the first call left them; and no call of moncontrol changes a field of  *)
(* the session other than the state.                                       *)
(***************************************************************************)
C14_Idempotent ==
  [][\A mode \in { 0, 1 } :
       moncontrol(mode)
         => /\ (hist.last # << >> /\ hist.last[Len(hist.last)] = mode)
                 => /\ gmonparam' = gmonparam
                    /\ profil' = profil
            /\ gmonparam' = [gmonparam EXCEPT !.state = gmonparam'.state]
            /\ s_scale' = s_scale
            /\ mapped' = mapped]_vars

\* moncontrol(0) twice in a row and moncontrol(1) twice in a row have been
\* called on a session with recorded arcs
C14_TwiceInARow ==
  /\ pc = "run"
  /\ hist.last \in { << 0, 0 >>, << 1, 1 >> }
  /\ gmonparam.state = MoncontrolState(hist.last[2])
  /\ gmonparam.tos[0].link > 0

(***************************************************************************)
(* C15.  When one of the three mmap(2) calls of monstartup fails, no       *)
(* region stays mapped, the three pointers are null, the sampling source   *)
(* was not started and the state is GMON_PROF_OFF; the sampling source is  *)
(* started and the state GMON_PROF_ON only after the three regions were    *)
(* obtained.                                                               *)
(***************************************************************************)
C15_AllOrNothing ==
  /\ pc = "nomem"
       => /\ mapped = { }
          /\ gmonparam.kcount = NULL /\ gmonparam.froms = NULL /\ gmonparam.tos = NULL
          /\ profil = ProfilOff
          /\ gmonparam.state = "GMON_PROF_OFF"
          /\ diag = << "monstartup: out of memory" >>
  /\ (profil # ProfilOff \/ gmonparam.state # "GMON_PROF_OFF")
       => /\ mapped = Regions
          /\ gmonparam.kcount # NULL /\ gmonparam.froms # NULL /\ gmonparam.tos # NULL

\* monstartup(2, MaxPc) has failed
C15_OutOfMemory ==
  /\ pc = "nomem"
  /\ gmonparam.highpc >= MaxPc
  /\ gmonparam.tossize > 0
  /\ mapped = { }

(***************************************************************************)
(* C16.  For lowpc < highpc monstartup leaves textsize > 0, a multiple of  *)
(* the rounding unit, with the rounded lowpc at or below the argument and  *)
(* the rounded highpc at or above it, kcountsize <= textsize,              *)
(* fromssize <= textsize, tolimit within [MINARCS, MAXARCS], and a scale   *)
(* in (0, 65536] that is 65536 exactly when kcountsize >= textsize; the    *)
(* integer computation of the scale has no zero divisor.  The sizes are    *)
(* those of every session opened; the limits of tolimit and the divisors   *)
(* are also computed for text sizes beyond those the model opens.          *)
(***************************************************************************)
RoundingUnit == HISTFRACTION * SizeofHistcounter

\* text sizes around the limits of tolimit and of the bands of the scale
TextSizes == { 4, 148, 152, 3276700, 3276800, 3276804, 8388604, 8388608, 16777216 }

C16_SizesAndScale ==
  /\ pc # "start"
       => LET p == gmonparam
              lo == hist.args[1]
              hi == hist.args[2]
          IN /\ p.textsize > 0
             /\ p.textsize = p.highpc - p.lowpc
             /\ p.textsize % RoundingUnit = 0
             /\ p.lowpc <= lo /\ p.highpc >= hi
             /\ p.kcountsize <= p.textsize
             /\ p.fromssize <= p.textsize
             /\ MINARCS <= p.tolimit /\ p.tolimit <= MAXARCS
             /\ 0 \notin ScaleDivisors(p.textsize, p.kcountsize)
             /\ pc = "run"
                  => /\ 0 < s_scale /\ s_scale <= SCALE_1_TO_1
                     /\ s_scale = SCALE_1_TO_1 <=> p.kcountsize >= p.textsize
  /\ \A ts \in TextSizes :
       /\ MINARCS <= Tolimit(ts) /\ Tolimit(ts) <= MAXARCS
       /\ 0 \notin ScaleDivisors(ts, ts \div HISTFRACTION)

\* monstartup(1, 2) and monstartup(3, 6): arguments that are not multiples of
\* the rounding unit
C16_RoundedOutward ==
  /\ pc = "run"
  /\ hist.args \in { << 1, 2 >>, << 3, 6 >> }
  /\ gmonparam.lowpc < hist.args[1]
  /\ gmonparam.highpc > hist.args[2]
  /\ s_scale = 32768

(***************************************************************************)
(* C17.  Within the chain of each bucket the callees are pairwise          *)
(* distinct; a call whose callee is already in the chain of the caller's   *)
(* bucket increments the count of that arc and allocates none, so an edge  *)
(* called twice has one arc of count 2, and N distinct callees called from *)
(* one bucket make a chain of N arcs reachable from froms[bucket].         *)
(***************************************************************************)
\* the calls reported from the callers of bucket b
CallsInto(p, b) == { t \in hist.calls : Bucket(p, t[1]) = b }

\* the callees of the chain of bucket b, head first
ChainCallees(p, b) ==
  LET chain == ChainOf(p.tos, p.froms[b])
  IN [k \in 1..Len(chain) |-> p.tos[chain[k]].selfpc]

ChainIsDistinct(p, b) ==
  LET callees == ChainCallees(p, b)
  IN \A i, j \in 1..Len(callees) : i # j => callees[i] # callees[j]

\* the chain of bucket b has one arc per callee called from the bucket, and
\* each arc counts the calls of its callee
ChainCountsCalls(p, b) ==
  LET chain == ChainOf(p.tos, p.froms[b])
      called == { t[2] : t \in CallsInto(p, b) }
  IN /\ Len(chain) = Cardinality(called)
     /\ { p.tos[chain[k]].selfpc : k \in 1..Len(chain) } = called
     /\ \A k \in 1..Len(chain) :
          p.tos[chain[k]].count
            = CallsReported({ t \in CallsInto(p, b) : t[2] = p.tos[chain[k]].selfpc })

IsSample(r) == r.kind = "sample"

\* the bytes of histogram written to the file
HistogramBytes == Len(SelectSeq(out, IsSample)) * SizeofHistcounter

\* the trace is a header record whose ncnt is below sizeof(struct gmonhdr)
DeclaresTooLittle(trace) ==
  LET v == Sscanf(trace, TagGmonhdr, 5)
  IN Len(v) = 5 /\ v[3] < SizeofGmonhdr

C18_HistogramAsDeclared ==
  /\ de.state = "RAWARC"
       => /\ out[1].kind = "gmonhdr"
          /\ HistogramBytes = out[1].hdr.ncnt - SizeofGmonhdr
  /\ (consumed # << >> /\ DeclaresTooLittle(consumed[1].trace))
       => de.state = "ERROR" /\ out = << >>

(***************************************************************************)
(* C19.  In every state of the cursor sample_count <= sample_total; the    *)
(* state is RAWARC or FOOTER only if sample_count = sample_total; every    *)
(* call of gmon_append leaves the state where it was or moves it to the    *)
(* next of HEADER, KCOUNT, RAWARC, FOOTER, or to ERROR; no call moves it   *)
(* out of FOOTER or ERROR.                                                 *)
(***************************************************************************)
\* the moves of the state one call of gmon_append may make
ForwardMoves ==
  { << "HEADER", "KCOUNT" >>, << "KCOUNT", "KCOUNT" >>, << "KCOUNT", "RAWARC" >>,
    << "RAWARC", "RAWARC" >>, << "RAWARC", "FOOTER" >> }
    \cup { << st, "ERROR" >> : st \in { "HEADER", "KCOUNT", "RAWARC" } }

C19_CursorMovesForward ==
  /\ de.sample_count <= de.sample_total
  /\ de.state \in { "RAWARC", "FOOTER" } => de.sample_count = de.sample_total
  /\ \A k \in 1..Len(consumed) :
       /\ << consumed[k].from, consumed[k].to >> \in ForwardMoves
       /\ consumed[k].count <= consumed[k].total
  /\ de.state \in { "FOOTER", "ERROR" }
       => \A trace \in Pool : gmon_append(de, out, trace, 0).de = de

\* a header, two kcount records that fill the histogram, and the footer
C19_ThroughEveryState ==
  /\ de.state = "FOOTER"
  /\ de.sample_total = 2
  /\ Len(consumed) = 4
  /\ consumed[2].to = "KCOUNT"
  /\ consumed[3].to = "RAWARC"

(***************************************************************************)
(* C20.  ktrace_extract returns the file only if the cursor reached        *)
(* FOOTER; when it returns with the cursor at ERROR, HEADER, KCOUNT or     *)
(* RAWARC it returns NULL, whatever has been written to the file by then.  *)
(***************************************************************************)
C20_FileOnlyAfterFooter ==
  /\ xret.file => (xret.status = "returned" /\ de.state = "FOOTER")
  /\ (xret.status = "returned" /\ de.state \in { "ERROR", "HEADER", "KCOUNT", "RAWARC" })
       => ~xret.file
  /\ xret.status = "aborted" => ~xret.file

\* the input ends after a header, its samples and an arc: the file holds all
\* three and is not returned
C20_PartialFileNotReturned ==
  /\ xret.status = "returned"
  /\ xret.eof
  /\ de.state = "RAWARC"
  /\ Len(out) >= 3
  /\ out[Len(out)].kind = "rawarc"
  /\ ~xret.file

(***************************************************************************)
(* C21.  ktrace_extract never calls gmon_append with the cursor at FOOTER  *)
(* or ERROR: it reads no record once either state is reached, so the       *)
(* abort() of gmon_append is never executed.                               *)
(***************************************************************************)
C21_NoAppendAfterTerminal ==
  /\ xret.status # "aborted"
  /\ \A k \in 1..Len(consumed) :
       /\ consumed[k].from \notin { "FOOTER", "ERROR" }
       /\ consumed[k].to # "abort"
  /\ de.state \in { "FOOTER", "ERROR" } => xret.status = "returned"

\* a malformed second record with more of the trace still to read
C21_StoppedAtError ==
  /\ de.state = "ERROR"
  /\ Len(consumed) = 2
  /\ consumed[2].to = "ERROR"
  /\ xret.status = "returned"
  /\ ~xret.eof

(***************************************************************************)
(* C22.  Every record ktrace_extract hands to gmon_append is a record of   *)
(* utrace(2) under the label of gmon with one and the same pid: that of    *)
(* the first such record whose pid is target_pid (of the first such record *)
(* when target_pid is -1); a record with another pid, of another type or   *)
(* under another label changes neither the cursor nor the file.            *)
(***************************************************************************)
\* rec is a record of utrace(2) under the label of gmon
GmonLabeled(rec) == rec.type = "KTR_USER" /\ rec.label = GMON_LABEL

\* rec is the record that starts the session: no record was taken before it
\* and its pid is the one asked for
StartsSession(rec) ==
  /\ GmonLabeled(rec)
  /\ ~kt.have_pid
  /\ kt.target_pid = -1 \/ rec.pid = kt.target_pid

\* rec is a record of the session already started
OfSession(rec) == GmonLabeled(rec) /\ kt.have_pid /\ rec.pid = kt.pid

C22_OnlyTheSession ==
  [][\A rec \in Records :
       \A wfail \in WriteFailures(rec.trace), flushed \in BOOLEAN :
         Feed(rec, wfail, flushed)
           => /\ StartsSession(rec)
                   => /\ kt'.have_pid /\ kt'.pid = rec.pid
                      /\ Len(consumed') = Len(consumed) + 1
              /\ OfSession(rec)
                   => /\ kt'.pid = kt.pid
                      /\ Len(consumed') = Len(consumed) + 1
              /\ ~StartsSession(rec) /\ ~OfSession(rec)
                   => /\ de' = de /\ out' = out /\ consumed' = consumed
                      /\ kt'.have_pid = kt.have_pid /\ kt'.pid = kt.pid]_vars

(***************************************************************************)
(* smtpd's table-proc: the handshake with the backend and the requests.    *)
(* The lines are those getline(3) returns, their newline removed.          *)
(***************************************************************************)
MaxLines == 2
MaxRequests == 2

Min(a, b) == IF a <= b THEN a ELSE b

\* strncmp(a, b, n) == 0: the strings agree up to n bytes or up to their end
StrncmpEqual(a, b, n) ==
  \A i \in 1..Min(n, Min(Len(a), Len(b)) + 1) : ByteOf(a, i) = ByteOf(b, i)

\* the string that starts at the i-th byte of str
StringAt(str, i) == SubSeq(str, i, Len(str))

DecChars == << "0", "1", "2", "3", "4", "5", "6", "7", "8", "9" >>

RECURSIVE FmtDec(_)
\* snprintf(3) with "%lld"
FmtDec(n) ==
  IF n < 10 THEN << DecChars[n + 1] >>
  ELSE FmtDec(n \div 10) \o << DecChars[(n % 10) + 1] >>

\* the values arc4random(3) returns
IdValues == { 1, 2, 12 }

\* lines 38-50: table_proc_nextid, for the value arc4random(3) returned
table_proc_nextid(random) == FmtDec(random)

TypeUpdateResult == << "u", "p", "d", "a", "t", "e", "-", "r", "e", "s", "u", "l", "t" >>
TypeLookupResult == << "l", "o", "o", "k", "u", "p", "-", "r", "e", "s", "u", "l", "t" >>
TypeCheckResult == << "c", "h", "e", "c", "k", "-", "r", "e", "s", "u", "l", "t" >>
TypeFetchResult == << "f", "e", "t", "c", "h", "-", "r", "e", "s", "u", "l", "t" >>

\* a table_proc_recv that would not compare the id of the reply
table_proc_recv_any_id(line, type, lastid) ==
  IF ~StrncmpEqual(line, type, Len(type)) THEN [ok |-> FALSE, payload |-> << >>]
  ELSE IF ByteOf(line, Len(type) + 1) # "|" THEN [ok |-> FALSE, payload |-> << >>]
  ELSE LET bars == { i \in (Len(type) + 2)..Len(line) : line[i] = "|" }
       IN IF bars = { } THEN [ok |-> FALSE, payload |-> << >>]
          ELSE [ok |-> TRUE,
                payload |-> StringAt(line, (CHOOSE i \in bars : \A j \in bars : i <= j) + 1)]

\* lines 88-110: table_proc_recv on the line read; ok is FALSE when the
\* function ends in fatalx
table_proc_recv(line, type, lastid) ==
  IF ~StrncmpEqual(line, type, Len(type)) THEN [ok |-> FALSE, payload |-> << >>]
  ELSE LET l == Len(type) + 1 IN
    IF ByteOf(line, l) # "|" THEN [ok |-> FALSE, payload |-> << >>]
    ELSE IF ~StrncmpEqual(StringAt(line, l + 1), lastid, Len(lastid))
    THEN [ok |-> FALSE, payload |-> << >>]
    ELSE LET m == l + 1 + Len(lastid) IN
      IF ByteOf(line, m) # "|" THEN [ok |-> FALSE, payload |-> << >>]
      ELSE [ok |-> TRUE, payload |-> StringAt(line, m + 1)]

PayOk == << "o", "k" >>
PayError == << "e", "r", "r", "o", "r" >>
PayNotFound == << "n", "o", "t", "-", "f", "o", "u", "n", "d" >>
PayFound == << "f", "o", "u", "n", "d" >>
PayFoundBar == << "f", "o", "u", "n", "d", "|" >>

\* lines 84-85 and the call of table_proc_recv: reply.eof is getline(3)
\* returning -1
Receive(reply, type, lastid) ==
  IF reply.eof THEN [ok |-> FALSE, payload |-> << >>]
  ELSE table_proc_recv(reply.line, type, lastid)

\* lines 196-204: what table_proc_update makes of the payload
UpdateValue(r) ==
  IF r = PayOk THEN "1" ELSE IF r = PayError THEN "0" ELSE "fatal"

\* lines 234-260: what table_proc_lookup makes of the payload; check is
\* dst == NULL, oom is strdup(3) returning NULL
LookupValue(r, check, oom) ==
  IF r = PayNotFound THEN "0"
  ELSE IF r = PayError THEN "-1"
  ELSE IF check
  THEN IF StrncmpEqual(r, PayFound, Len(PayFound)) THEN "1" ELSE "fatal"
  ELSE IF ~StrncmpEqual(r, PayFoundBar, Len(PayFoundBar)) THEN "fatal"
  ELSE IF ByteOf(r, Len(PayFoundBar) + 1) = "NUL" THEN "fatal"
  ELSE IF oom THEN "-1" ELSE "1"

\* lines 271-288: what table_proc_fetch makes of the payload
FetchValue(r, oom) ==
  IF r = PayNotFound THEN "0"
  ELSE IF r = PayError THEN "-1"
  ELSE IF ~StrncmpEqual(r, PayFoundBar, Len(PayFoundBar)) THEN "fatal"
  ELSE IF ByteOf(r, Len(PayFoundBar) + 1) = "NUL" THEN "fatal"
  ELSE IF oom THEN "-1" ELSE "1"

\* the value the caller of table_proc_recv returns for the payload r
ValueOf(op, r, oom) ==
  CASE op = "update" -> UpdateValue(r)
    [] op = "lookup" -> LookupValue(r, FALSE, oom)
    [] op = "check" -> LookupValue(r, TRUE, oom)
    [] op = "fetch" -> FetchValue(r, oom)

\* one request: table_proc_send draws the id, table_proc_recv reads the
\* reply, and the caller's value is made of the payload
Request(op, type, random, reply, oom) ==
  /\ tp.phase = "opened"
  /\ tp.calls < MaxRequests
  /\ LET id == table_proc_nextid(random)
         r == Receive(reply, type, id)
         v == IF r.ok THEN ValueOf(op, r.payload, oom) ELSE "fatal"
     IN tp' = [tp EXCEPT !.lastid = id,
                         !.calls = @ + 1,
                         !.phase = IF v = "fatal" THEN "fatal" ELSE "opened",
                         !.ret = [op |-> op, type |-> type, before |-> tp.lastid,
                                  reply |-> reply, received |-> r.ok,
                                  payload |-> r.payload, value |-> v]]
  /\ UNCHANGED << el >>
  /\ UNCHANGED captureVars
  /\ UNCHANGED extractVars

\* the payloads a reply may carry
Payloads ==
  { PayOk, PayError, PayNotFound, PayFound, PayFoundBar, PayFoundBar \o << "v" >>,
    << "x" >> }

SepBar == << "|" >>

ResultTypes == { TypeUpdateResult, TypeLookupResult, TypeCheckResult, TypeFetchResult }

\* the lines the backend may answer with: every result type with every id,
\* every result type with every payload, and lines that are not of that form
ReplyLines ==
  { t \o SepBar \o FmtDec(i) \o SepBar \o PayOk : t \in ResultTypes, i \in IdValues }
  \cup { t \o SepBar \o FmtDec(i) \o SepBar \o PayFoundBar \o << "v" >> :
           t \in { TypeLookupResult }, i \in IdValues }
  \cup { t \o SepBar \o FmtDec(i) \o SepBar \o pay :
           t \in ResultTypes, i \in { 12 }, pay \in Payloads }
  \cup { TypeUpdateResult \o SepBar \o FmtDec(i) : i \in IdValues }
  \cup { TypeUpdateResult \o << "s" >> \o SepBar \o FmtDec(i) \o SepBar \o PayOk : i \in IdValues }
  \cup { SubSeq(TypeUpdateResult, 1, 6) \o SepBar \o FmtDec(i) \o SepBar \o PayOk : i \in IdValues }
  \cup { TypeFetchResult \o FmtDec(i) \o SepBar \o PayError : i \in IdValues }
  \cup { << >>, SepBar, TypeCheckResult }

Replies ==
  { [eof |-> FALSE, line |-> l] : l \in ReplyLines } \cup { [eof |-> TRUE, line |-> << >>] }

table_proc_update(random, reply) ==
  Request("update", TypeUpdateResult, random, reply, FALSE)

table_proc_lookup(check, random, reply, oom) ==
  Request(IF check THEN "check" ELSE "lookup",
          IF check THEN TypeCheckResult ELSE TypeLookupResult,
          random, reply, oom)

table_proc_fetch(random, reply, oom) ==
  Request("fetch", TypeFetchResult, random, reply, oom)

TagRegister == << "r", "e", "g", "i", "s", "t", "e", "r", "|" >>
ServiceReady == << "r", "e", "a", "d", "y" >>

\* the services of lines 151-174
ServiceNames ==
  { << "a", "l", "i", "a", "s" >>,
    << "d", "o", "m", "a", "i", "n" >>,
    << "c", "r", "e", "d", "e", "n", "t", "i", "a", "l", "s" >>,
    << "n", "e", "t", "a", "d", "d", "r" >>,
    << "u", "s", "e", "r", "i", "n", "f", "o" >>,
    << "s", "o", "u", "r", "c", "e" >>,
    << "m", "a", "i", "l", "a", "d", "d", "r" >>,
    << "a", "d", "d", "r", "n", "a", "m", "e" >>,
    << "m", "a", "i", "l", "a", "d", "d", "r", "m", "a", "p" >>,
    << "r", "e", "l", "a", "y", "h", "o", "s", "t" >>,
    << "s", "t", "r", "i", "n", "g" >>,
    << "r", "e", "g", "e", "x" >> }

RECURSIVE HandshakeLoop(_, _, _)
\* lines 141-177: the loop over the lines of the backend, from the k-th on;
\* read counts the lines getline(3) returned
HandshakeLoop(stream, k, services) ==
  IF k > Len(stream) THEN [end |-> "eof", services |-> services, read |-> k - 1]
  ELSE IF ~StrncmpEqual(stream[k], TagRegister, Len(TagRegister))
  THEN [end |-> "fatal", services |-> services, read |-> k]
  ELSE LET service == StringAt(stream[k], Len(TagRegister) + 1) IN
    IF service = ServiceReady THEN [end |-> "ready", services |-> services, read |-> k]
    ELSE IF service \in ServiceNames
    THEN HandshakeLoop(stream, k + 1, services \cup { service })
    ELSE [end |-> "fatal", services |-> services, read |-> k]

\* lines 126-188: table_proc_open; forked is FALSE when the backend could not
\* be started or written to, ferr is ferror(3) once getline(3) returned -1
table_proc_open(stream, forked, ferr) ==
  /\ tp.phase = "closed"
  /\ LET h == HandshakeLoop(stream, 1, { })
         opened == /\ forked
                   /\ h.end # "fatal"
                   /\ ~(h.end = "eof" /\ ferr)
                   /\ h.services # { }
     IN tp' = [tp EXCEPT !.phase = IF opened THEN "opened" ELSE "fatal",
                         !.services = IF forked THEN h.services ELSE { },
                         !.lines = IF forked THEN SubSeq(stream, 1, h.read) ELSE << >>]
  /\ UNCHANGED << el >>
  /\ UNCHANGED captureVars
  /\ UNCHANGED extractVars

\* the lines a backend may send during the handshake
HandshakeLines ==
  { TagRegister \o << "a", "l", "i", "a", "s" >>,
    TagRegister \o << "r", "e", "g", "e", "x" >>,
    TagRegister \o ServiceReady,
    TagRegister \o << "b", "o", "g", "u", "s" >>,
    TagRegister,
    ServiceReady }

RECURSIVE SeqsUpTo(_, _)
\* the sequences of at most n elements of S
SeqsUpTo(S, n) ==
  IF n = 0 THEN { << >> }
  ELSE LET shorter == SeqsUpTo(S, n - 1)
       IN shorter \cup { Append(q, x) : q \in shorter, x \in S }

NextTp ==
  \/ \E stream \in SeqsUpTo(HandshakeLines, MaxLines), forked, ferr \in BOOLEAN :
       table_proc_open(stream, forked, ferr)
  \/ \E random \in IdValues, reply \in Replies : table_proc_update(random, reply)
  \/ \E check, oom \in BOOLEAN, random \in IdValues, reply \in Replies :
       table_proc_lookup(check, random, reply, oom)
  \/ \E oom \in BOOLEAN, random \in IdValues, reply \in Replies :
       table_proc_fetch(random, reply, oom)

SpecTp == Init /\ [][NextTp]_vars

(***************************************************************************)
(* C23.  After any sequence of requests, table_proc_recv hands a payload   *)
(* back only if the reply is the result type of the request just sent, a   *)
(* bar, the id drawn for that request, a bar, and the payload; a reply of  *)
(* another type or with another id is not taken and ends the process.      *)
(***************************************************************************)
RECURSIVE BarFields(_)
\* the pieces of a line between its bars
BarFields(line) ==
  IF \A i \in 1..Len(line) : line[i] # "|" THEN << line >>
  ELSE LET i == CHOOSE i \in 1..Len(line) :
                  line[i] = "|" /\ \A k \in 1..(i - 1) : line[k] # "|"
       IN << SubSeq(line, 1, i - 1) >> \o BarFields(SubSeq(line, i + 1, Len(line)))

\* the result type of each request
ResultType(op) ==
  CASE op = "update" -> TypeUpdateResult
    [] op = "lookup" -> TypeLookupResult
    [] op = "check" -> TypeCheckResult
    [] op = "fetch" -> TypeFetchResult

C23_ReplyOfLastRequest ==
  tp.ret.op # "none"
    => LET ret == tp.ret
           fields == BarFields(ret.reply.line)
           answers == /\ ~ret.reply.eof
                      /\ Len(fields) >= 3
                      /\ fields[1] = ResultType(ret.op)
                      /\ fields[2] = tp.lastid
       IN /\ ret.received <=> answers
          /\ ret.received
               => ret.reply.line
                    = ResultType(ret.op) \o SepBar \o tp.lastid \o SepBar \o ret.payload
          /\ ~ret.received => (tp.phase = "fatal" /\ ret.value = "fatal")

\* a second request whose id differs from that of the first, answered under
\* the new id
C23_SecondRequestAnswered ==
  /\ tp.calls = 2
  /\ tp.ret.op = "lookup"
  /\ tp.ret.received
  /\ tp.ret.before # << >>
  /\ tp.ret.before # tp.lastid
  /\ tp.ret.value = "1"

(***************************************************************************)
(* C24.  table_proc_open succeeds only if every line read was a register   *)
(* line of a known service, the line register|ready was read, and at least *)
(* one service was registered before it; a stream that ends before         *)
(* register|ready does not open the table.                                 *)
(***************************************************************************)
C24_OpenedAfterReady ==
  (tp.phase = "opened" \/ tp.calls > 0)
    => /\ Len(tp.lines) >= 2
       /\ tp.lines[Len(tp.lines)] = TagRegister \o ServiceReady
       /\ \A k \in 1..(Len(tp.lines) - 1) :
            \E service \in ServiceNames : tp.lines[k] = TagRegister \o service
       /\ tp.services # { }

(***************************************************************************)
(* mg's electric-pair-mode.  Characters are their codes, as the int of the *)
(* source: 34 is the double quote, 39 the apostrophe, 96 the backtick, 40  *)
(* and 41 the parentheses, 91 and 93 the brackets, 123 and 125 the braces, *)
(* 97 the letter a, 10 the newline and 0 the NUL.  A buffer is its lines   *)
(* and the dot (line dotp, offset doto).                                   *)
(***************************************************************************)
MaxLineLen == 2
MaxKeys == 2

\* lines 103-120, comparing the characters for equality only
pairp_same(o, c) == o \in { 34, 39, 96, 40, 91, 123 } /\ c = o

\* lines 103-120
pairp(o, c) ==
  CASE o \in { 34, 39, 96 } -> c = o
    [] o = 40 -> c = 41
    [] o = 91 -> c = 93
    [] o = 123 -> c = 125
    [] OTHER -> FALSE

\* the primitives of mg the commands call
llength(b) == Len(b.lines[b.dotp])
lgetc(b, doto) == b.lines[b.dotp][doto + 1]

\* linsert(n, c): n copies of c at the dot, the dot after them
linsert(b, n, c) ==
  LET l == b.lines[b.dotp]
  IN [b EXCEPT !.lines[b.dotp] = SubSeq(l, 1, b.doto) \o [k \in 1..n |-> c]
                                   \o SubSeq(l, b.doto + 1, Len(l)),
               !.doto = @ + n]

\* forwchar(FFRAND, 1)
forwchar(b) ==
  IF b.doto < llength(b) THEN [s |-> TRUE, b |-> [b EXCEPT !.doto = @ + 1]]
  ELSE IF b.dotp < Len(b.lines) THEN [s |-> TRUE, b |-> [b EXCEPT !.dotp = @ + 1, !.doto = 0]]
  ELSE [s |-> FALSE, b |-> b]

RECURSIVE backchar(_, _)
\* backchar(FFRAND, n)
backchar(b, n) ==
  IF n = 0 THEN [s |-> TRUE, b |-> b]
  ELSE IF b.doto > 0 THEN backchar([b EXCEPT !.doto = @ - 1], n - 1)
  ELSE IF b.dotp > 1
  THEN backchar([b EXCEPT !.dotp = @ - 1, !.doto = Len(b.lines[b.dotp - 1])], n - 1)
  ELSE [s |-> FALSE, b |-> b]

\* forwdel(FFRAND, 1): the character at the dot, or the end of the line
forwdel(b) ==
  LET l == b.lines[b.dotp] IN
  IF b.doto < Len(l)
  THEN [s |-> TRUE,
        b |-> [b EXCEPT !.lines[b.dotp] = SubSeq(l, 1, b.doto) \o SubSeq(l, b.doto + 2, Len(l))]]
  ELSE IF b.dotp < Len(b.lines)
  THEN [s |-> TRUE,
        b |-> [b EXCEPT !.lines = SubSeq(b.lines, 1, b.dotp - 1)
                                    \o << l \o b.lines[b.dotp + 1] >>
                                    \o SubSeq(b.lines, b.dotp + 2, Len(b.lines))]]
  ELSE [s |-> FALSE, b |-> b]

\* backdel(FFRAND, 1): back one character, then delete it
backdel(b) ==
  LET back == backchar(b, 1)
  IN IF back.s THEN forwdel(back.b) ELSE [s |-> FALSE, b |-> b]

\* lines 122-132: epclosep for the key c
epclosep(b, c) == IF b.doto < llength(b) THEN c = lgetc(b, b.doto) ELSE FALSE

\* lines 155-170: the switch of epinsert; s is the status selfinsert left
InsertCloser(b, n, c, failed) ==
  LET closer == CASE c \in { 34, 39, 96 } -> c
                  [] c = 40 -> 41
                  [] c = 91 -> 93
                  [] c = 123 -> 125
                  [] OTHER -> 0
  IN IF closer = 0 THEN [s |-> TRUE, b |-> b]
     ELSE IF failed THEN [s |-> FALSE, b |-> b]
     ELSE [s |-> TRUE, b |-> linsert(b, n, closer)]

\* lines 137-176: epinsert for the key c; fail is the number of the insertion
\* that fails (0: none)
Epinsert(b, c, n, fail) ==
  IF n < 0 THEN [s |-> FALSE, b |-> b]
  ELSE IF n = 0 THEN [s |-> TRUE, b |-> b]
  ELSE IF n = 1 /\ epclosep(b, c) THEN forwchar(b)
  ELSE IF fail = 1 THEN [s |-> FALSE, b |-> b]
  ELSE LET r == InsertCloser(linsert(b, n, c), n, c, fail = 2)
       IN IF ~r.s THEN r ELSE backchar(r.b, n)

\* lines 181-187: epskip for the key c
Epskip(b, c, n, fail) ==
  IF n = 1 /\ epclosep(b, c) THEN forwchar(b)
  ELSE IF n < 0 \/ fail = 1 THEN [s |-> FALSE, b |-> b]
  ELSE [s |-> TRUE, b |-> linsert(b, n, c)]

RECURSIVE EpbdelLoop(_, _)
\* lines 200-222: the loop of epbdel
EpbdelLoop(b, n) ==
  IF n = 0 THEN [s |-> TRUE, b |-> b]
  ELSE LET o == IF b.doto > 0 THEN lgetc(b, b.doto - 1) ELSE 0
           d == backdel(b)
       IN IF ~d.s THEN d
          ELSE LET c == IF d.b.doto < llength(d.b) THEN lgetc(d.b, d.b.doto) ELSE 0
               IN IF ~pairp(o, c) THEN EpbdelLoop(d.b, n - 1)
                  ELSE LET e == forwdel(d.b)
                       IN IF ~e.s THEN e ELSE EpbdelLoop(e.b, n - 1)

RECURSIVE EpfdelLoop(_, _)
\* lines 236-258: the loop of epfdel
EpfdelLoop(b, n) ==
  IF n = 0 THEN [s |-> TRUE, b |-> b]
  ELSE LET c == IF b.doto < llength(b) THEN lgetc(b, b.doto) ELSE 0
           d == forwdel(b)
       IN IF ~d.s THEN d
          ELSE LET o == IF d.b.doto > 0 THEN lgetc(d.b, d.b.doto - 1) ELSE 0
               IN IF ~pairp(o, c) THEN EpfdelLoop(d.b, n - 1)
                  ELSE LET e == backdel(d.b)
                       IN IF ~e.s THEN e ELSE EpfdelLoop(e.b, n - 1)

\* lines 192-198 and 228-234: a negative count is handed to the other command
Epbdel(b, n) == IF n < 0 THEN EpfdelLoop(b, 0 - n) ELSE EpbdelLoop(b, n)
Epfdel(b, n) == IF n < 0 THEN EpbdelLoop(b, 0 - n) ELSE EpfdelLoop(b, n)

\* the buffer of mg
Buffer == [lines |-> el.lines, dotp |-> el.dotp, doto |-> el.doto]

\* the last two commands, each with the buffer it met
LastCommands(last, entry) ==
  IF Len(last) < 2 THEN Append(last, entry) ELSE << last[2], entry >>

\* a command of the mode leaves its buffer and is remembered with its status
Command(cmd, key, n, r) ==
  /\ Len(el.last) < MaxKeys
  /\ el' = [lines |-> r.b.lines, dotp |-> r.b.dotp, doto |-> r.b.doto,
            last |-> LastCommands(el.last, [cmd |-> cmd, key |-> key, n |-> n,
                                           s |-> r.s, before |-> Buffer])]
  /\ UNCHANGED << tp >>
  /\ UNCHANGED captureVars
  /\ UNCHANGED extractVars

epinsert(c, n, fail) == Command("epinsert", c, n, Epinsert(Buffer, c, n, fail))
epskip(c, n, fail) == Command("epskip", c, n, Epskip(Buffer, c, n, fail))
epbdel(n) == Command("epbdel", 127, n, Epbdel(Buffer, n))
epfdel(n) == Command("epfdel", 4, n, Epfdel(Buffer, n))

\* the keys bound to epinsert and to epskip (lines 39-83)
InsertKeys == { 34, 39, 40, 91, 96, 123 }
SkipKeys == { 41, 93, 125 }

\* the counts of the commands
Counts == { -1, 0, 1, 2 }

\* the characters of the lines mg starts with
LineChars == { 34, 40, 41, 97 }

\* the buffers mg starts with: one line with the dot anywhere in it, or the
\* line "(" and a shorter line after it with the dot in either
StartBuffers ==
  { [lines |-> ls, dotp |-> p, doto |-> o, last |-> << >>] :
      ls \in { << l >> : l \in SeqsUpTo(LineChars, MaxLineLen) }
             \cup { << << 40 >>, l >> : l \in SeqsUpTo(LineChars, MaxLineLen - 1) },
      p \in 1..2, o \in 0..MaxLineLen }

InitEl ==
  /\ InitGmon({ KTR_USER_MAXLEN }, { -1 })
  /\ tp = TpClosed
  /\ el \in { b \in StartBuffers : b.dotp <= Len(b.lines) /\ b.doto <= Len(b.lines[b.dotp]) }

NextEl ==
  \/ \E c \in InsertKeys, n \in Counts, fail \in 0..2 : epinsert(c, n, fail)
  \/ \E c \in SkipKeys, n \in Counts, fail \in 0..1 : epskip(c, n, fail)
  \/ \E n \in Counts : epbdel(n)
  \/ \E n \in Counts : epfdel(n)

SpecEl == InitEl /\ [][NextEl]_vars

(***************************************************************************)
(* C25.  For every buffer and opening character c other than the one at    *)
(* the dot, epinsert with n = 1 inserts c and its closer at the dot and     *)
(* leaves the dot between them, and epbdel with n = 1 right after deletes  *)
(* both and restores the buffer and the dot; epbdel and epfdel with n = 1  *)
(* delete a second character exactly when the deleted character and its    *)
(* neighbour across the dot are an opener and its closer.                  *)
(***************************************************************************)
RECURSIVE TextOfLines(_)
\* the text of the lines, a newline between two lines
TextOfLines(lines) ==
  IF Len(lines) = 1 THEN lines[1]
  ELSE lines[1] \o << 10 >> \o TextOfLines(Tail(lines))

TextOf(b) == TextOfLines(b.lines)

RECURSIVE OffsetOfLine(_, _)
\* the number of characters of the text before the line dotp
OffsetOfLine(lines, dotp) ==
  IF dotp = 1 THEN 0 ELSE Len(lines[1]) + 1 + OffsetOfLine(Tail(lines), dotp - 1)

\* the number of characters of the text before the dot
DotOf(b) == OffsetOfLine(b.lines, b.dotp) + b.doto

\* the openers with their closers
Pairs ==
  { << 34, 34 >>, << 39, 39 >>, << 96, 96 >>, << 40, 41 >>, << 91, 93 >>, << 123, 125 >> }

CloserOf(c) == (CHOOSE pr \in Pairs : pr[1] = c)[2]

\* the text without its characters from..to
Without(text, from, to) == SubSeq(text, 1, from - 1) \o SubSeq(text, to + 1, Len(text))

\* the buffer the k-th of the last commands left
AfterCommand(k) == IF k < Len(el.last) THEN el.last[k + 1].before ELSE Buffer

\* the command is epinsert with n = 1 of an opener other than the character
\* at the dot, and it succeeded
InsertsPair(e) ==
  /\ e.cmd = "epinsert" /\ e.n = 1 /\ e.s
  /\ LET t == TextOf(e.before)
         d == DotOf(e.before)
     IN d < Len(t) => t[d + 1] # e.key

C25_InsertThenDelete ==
  /\ \A k \in 1..Len(el.last) :
       LET e == el.last[k]
           t == TextOf(e.before)
           d == DotOf(e.before)
           a == AfterCommand(k)
       IN /\ InsertsPair(e)
               => /\ TextOf(a) = SubSeq(t, 1, d) \o << e.key, CloserOf(e.key) >>
                                   \o SubSeq(t, d + 1, Len(t))
                  /\ DotOf(a) = d + 1
          /\ (e.cmd = "epbdel" /\ e.n = 1 /\ e.s)
               => /\ d >= 1
                  /\ DotOf(a) = d - 1
                  /\ TextOf(a) = IF d < Len(t) /\ << t[d], t[d + 1] >> \in Pairs
                                 THEN Without(t, d, d + 1)
                                 ELSE Without(t, d, d)
          /\ (e.cmd = "epfdel" /\ e.n = 1 /\ e.s)
               => /\ d < Len(t)
                  /\ IF d >= 1 /\ << t[d], t[d + 1] >> \in Pairs
                     THEN TextOf(a) = Without(t, d, d + 1) /\ DotOf(a) = d - 1
                     ELSE TextOf(a) = Without(t, d + 1, d + 1) /\ DotOf(a) = d
  /\ (/\ Len(el.last) = 2
      /\ InsertsPair(el.last[1])
      /\ el.last[2].cmd = "epbdel"
      /\ el.last[2].n = 1)
       => /\ el.last[2].s
          /\ Buffer = el.last[1].before

\* "(" typed between a and ")" and deleted again
C25_ParenInsertedAndDeleted ==
  /\ Len(el.last) = 2
  /\ el.last[1].cmd = "epinsert" /\ el.last[1].key = 40 /\ el.last[1].n = 1
  /\ el.last[1].s
  /\ el.last[1].before = [lines |-> << << 97, 41 >> >>, dotp |-> 1, doto |-> 1]
  /\ el.last[2].before = [lines |-> << << 97, 40, 41, 41 >> >>, dotp |-> 1, doto |-> 2]
  /\ el.last[2].cmd = "epbdel" /\ el.last[2].n = 1
  /\ Buffer = el.last[1].before

====
